---- MODULE Spec2Model ----
(***************************************************************************)
(* A model of shore's orchestration core (src/src/app.rs): the control     *)
(* loop of App::run_app with its handlers, the inference tasks spawned by  *)
(* App::spawn_inference_task, the title tasks they spawn, the channel of   *)
(* InferenceEvent between them, and the tables of the SQLite store the     *)
(* handlers and tasks write.  A second specification, SpecView, drives the *)
(* per-model view construction of App::load_selected_chat over arbitrary   *)
(* message logs.                                                           *)
(***************************************************************************)
EXTENDS Integers, Sequences, FiniteSets, TLC

(***************************************************************************)
(* Bounds of the model.                                                    *)
(***************************************************************************)
\* inference tasks spawned in one behaviour
MaxTasks == 2
\* entries of chat_history (placeholder chats included)
MaxChats == 2
\* prompts in the store of SpecSelect, the one stored at startup included
MaxPrompts == 3
\* length of the message logs given to the view builder in SpecView
MaxLogLen == 4

(***************************************************************************)
(* The catalogue the orchestrator starts with: two models served by the    *)
(* same provider (one client, one mutex), whose API key is set.            *)
(***************************************************************************)
Models == {1, 2}
Providers == {1}

\* a row of table model, and a value of all_models and available_models
Model(id, provider_id, model) ==
    [id |-> id, provider_id |-> provider_id, model |-> model, deprecated |-> FALSE]

\* a row of table provider, with the fields the reconciler reads
Provider(id, availability_requires_models_response, models_from_list, last_models_update_timestamp, models_refresh_interval_seconds) ==
    [id |-> id,
     availability_requires_models_response |-> availability_requires_models_response,
     models_from_list |-> models_from_list,
     last_models_update_timestamp |-> last_models_update_timestamp,
     models_refresh_interval_seconds |-> models_refresh_interval_seconds]

\* Option<i64>::None for identities, Option<String>::None for texts
NoId == 0
NoText == "None"

(***************************************************************************)
(* ChatMessage and its constructors (src/src/model/chat.rs).               *)
(***************************************************************************)
new_user_message(chat_id, now_millis) ==
    [id |-> 0, dt |-> now_millis, chat_id |-> chat_id, model_id |-> NoId,
     chat_role |-> "User", content |-> "prompt", error |-> NoText]

new_assistant_message(chat_id, model_id, content, user_message_dt) ==
    [id |-> 0, dt |-> user_message_dt, chat_id |-> chat_id, model_id |-> model_id,
     chat_role |-> "Assistant", content |-> content, error |-> NoText]

new_assistant_message_with_error(chat_id, model_id, error, user_message_dt) ==
    [id |-> 0, dt |-> user_message_dt, chat_id |-> chat_id, model_id |-> model_id,
     chat_role |-> "Assistant", content |-> NoText, error |-> error]

\* the placeholder chat of create_new_chat: identity 0, no title
Chat(id, title) == [id |-> id, title |-> title]

(***************************************************************************)
(* Sequence helpers: Vec::insert, Iterator::position, Iterator::last.      *)
(***************************************************************************)
\* Vec::insert(idx, x) with a 0-based idx <= len
VecInsert(v, idx, x) == SubSeq(v, 1, idx) \o <<x>> \o SubSeq(v, idx + 1, Len(v))

\* the origin taken to be the newest message of the view, whatever its id
PositionById_Newest(v, id) == Len(v) - 1

\* 0-based position of the first message whose id is `id`, or -1 for None
PositionById(v, id) ==
    IF \E i \in 1..Len(v) : v[i].id = id
    THEN (CHOOSE i \in 1..Len(v) : v[i].id = id /\ \A j \in 1..(i - 1) : v[j].id # id) - 1
    ELSE -1

Last(v) == v[Len(v)]

\* the HashMap entry (k -> x) inserted or overwritten
MapInsert(map, k, x) == [y \in (DOMAIN map) \cup {k} |-> IF y = k THEN x ELSE map[y]]
MapRemove(map, k) == [y \in (DOMAIN map) \ {k} |-> map[y]]
EmptyMap == [y \in {} |-> 0]

\* App::model_select_modal when no dialog is open
NoModal ==
    [mode |-> "None", selection_index |-> 0, selection_states |-> EmptyMap,
     enabled_model_order |-> <<>>, dialog_mode |-> "Normal",
     visual_start_index |-> <<>>, available_models |-> EmptyMap]

(***************************************************************************)
(* Transcript View Builder: the loop of load_selected_chat.  For one model *)
(* the scan removes the model's own messages from the shared log, clones   *)
(* the messages without a model, and skips the others.                     *)
(***************************************************************************)
RECURSIVE ScanLog(_, _, _, _)
ScanLog(all_chat_messages, idx, model_id, model_messages) ==
    IF idx >= Len(all_chat_messages)
    THEN [all_chat_messages |-> all_chat_messages, model_messages |-> model_messages]
    ELSE LET curr_message == all_chat_messages[idx + 1] IN
         IF curr_message.model_id # NoId /\ curr_message.model_id = model_id
         THEN ScanLog(SubSeq(all_chat_messages, 1, idx)
                          \o SubSeq(all_chat_messages, idx + 2, Len(all_chat_messages)),
                      idx, model_id, Append(model_messages, curr_message))
         ELSE IF curr_message.model_id = NoId
         THEN ScanLog(all_chat_messages, idx + 1, model_id,
                      Append(model_messages, curr_message))
         ELSE ScanLog(all_chat_messages, idx + 1, model_id, model_messages)

\* the same scan with idx advanced after a removal as well
ScanModel_SkipAfterRemove(all_chat_messages, model_id) ==
    LET RECURSIVE Scan(_, _, _)
        Scan(all, idx, acc) ==
            IF idx >= Len(all) THEN [all_chat_messages |-> all, model_messages |-> acc]
            ELSE LET m == all[idx + 1] IN
                 IF m.model_id # NoId /\ m.model_id = model_id
                 THEN Scan(SubSeq(all, 1, idx) \o SubSeq(all, idx + 2, Len(all)),
                           idx + 1, Append(acc, m))
                 ELSE IF m.model_id = NoId
                 THEN Scan(all, idx + 1, Append(acc, m))
                 ELSE Scan(all, idx + 1, acc)
    IN Scan(all_chat_messages, 0, <<>>)

\* one iteration of `for model_id in &model_ids`
ScanModel(all_chat_messages, model_id) ==
    ScanLog(all_chat_messages, 0, model_id, <<>>)

RECURSIVE BuildViews(_, _, _)
BuildViews(all_chat_messages, model_ids, views) ==
    IF model_ids = <<>> THEN views
    ELSE LET r == ScanModel(all_chat_messages, Head(model_ids)) IN
         BuildViews(r.all_chat_messages, Tail(model_ids),
                    MapInsert(views, Head(model_ids), r.model_messages))


(***************************************************************************)
(* State.                                                                  *)
(***************************************************************************)
VARIABLES
    \* the store: tables chat, chat_model and chat_message, in rowid order
    db_chat, db_chat_model, db_chat_message,
    \* the store: table model in rowid order (row i has id i), and the column
    \* last_models_update_timestamp of table provider
    db_model, db_provider,
    \* chrono::Utc::now().timestamp_millis() as read by the last submit
    now_millis,
    \* fields of App
    default_profile, current_chat, current_model_idx, current_chat_profile,
    chat_history, chat_history_index, current_messages, current_message_index,
    title_inference_in_progress_by_chat,
    inference_in_progress_by_message_and_model,
    inference_handles_by_chat_and_model,
    provider_clients, available_models,
    state, providers, provider_api_keys_set, providers_marked_down, all_models,
    \* the spawned tokio tasks, keyed by <<user_message_id, model_id>>
    tasks, title_tasks,
    \* the tokio Mutex around each provider client: its holder, or Free
    provider_mutex,
    \* the unbounded channel of InferenceEvent, oldest first
    inference_event_rx,
    \* what run_app has returned to App::run, or "running" while its loop runs
    run_app_result,
    \* the model-selection dialog while it is open: its mode, the models enabled
    \* when it opened, in order, and the identities of the models it lists
    model_select_modal,
    \* the reconciliation passes started so far, the last one possibly running,
    \* and what each provider's list-models endpoint answers now
    refresh_tasks, live_catalog,
    \* SpecView: the builder's inputs and its result
    vb_all_chat_messages, vb_model_ids, vb_views, vb_built

store_vars == <<db_chat, db_chat_model, db_chat_message, now_millis, db_model, db_provider>>
app_vars == <<default_profile, current_chat, current_model_idx, current_chat_profile,
              chat_history, chat_history_index, current_messages, current_message_index,
              title_inference_in_progress_by_chat,
              inference_in_progress_by_message_and_model,
              inference_handles_by_chat_and_model, provider_clients, available_models,
              state, providers, provider_api_keys_set, providers_marked_down, all_models>>
task_vars == <<tasks, title_tasks, provider_mutex, inference_event_rx>>
view_vars == <<vb_all_chat_messages, vb_model_ids, vb_views, vb_built>>
catalog_vars == <<refresh_tasks, live_catalog>>
vars == <<store_vars, app_vars, task_vars, view_vars, catalog_vars, run_app_result,
          model_select_modal>>

catalog_app_vars == <<providers, provider_api_keys_set, providers_marked_down, all_models>>
\* the fields the handler of ModelsRefreshed writes
catalog_handler_vars == <<all_models, available_models, provider_api_keys_set,
                          provider_clients, providers_marked_down>>

\* the provider a model belongs to: column provider_id of its row, which never changes
ProviderOf(model_id) == db_model[model_id].provider_id

Free == <<>>
NoHandle == <<>>

Range(s) == {s[i] : i \in 1..Len(s)}

\* the orders in which a HashMap with key set S may be iterated
Orders(S) ==
    {s \in [1..Cardinality(S) -> S] : \A i, j \in 1..Cardinality(S) : i # j => s[i] # s[j]}

(***************************************************************************)
(* The store (src/src/database.rs).                                        *)
(***************************************************************************)
\* INSERT ... RETURNING id: the row gets the next rowid
add_chat_message(table, message) ==
    Append(table, [message EXCEPT !.id = Len(table) + 1])

RECURSIVE InsertByDt(_, _)
InsertByDt(sorted, row) ==
    IF sorted = <<>> THEN <<row>>
    ELSE IF Last(sorted).dt <= row.dt THEN Append(sorted, row)
    ELSE Append(InsertByDt(SubSeq(sorted, 1, Len(sorted) - 1), row), Last(sorted))

RECURSIVE OrderByDt(_)
OrderByDt(rows) ==
    IF rows = <<>> THEN <<>>
    ELSE InsertByDt(OrderByDt(SubSeq(rows, 1, Len(rows) - 1)), Last(rows))

\* SELECT ... WHERE chat_id = ? ORDER BY dt ASC; rows of equal dt in rowid order
get_chat_messages(chat_id) ==
    LET OfChat(row) == row.chat_id = chat_id
    IN OrderByDt(SelectSeq(db_chat_message, OfChat))

\* SELECT model_id FROM chat_model WHERE chat_id = ?
get_chat_models_ids(chat_id) ==
    LET OfChat(row) == row[1] = chat_id
        rows == SelectSeq(db_chat_model, OfChat)
    IN [i \in 1..Len(rows) |-> rows[i][2]]

\* INSERT INTO chat_model (chat_id, model_id) VALUES ..., nothing for an empty list
set_chat_models(table, chat_id, model_ids) ==
    table \o [i \in 1..Len(model_ids) |-> <<chat_id, model_ids[i]>>]

\* Database::set_chat_tools on table chat_model: its statement is the one of
\* set_chat_models, INSERT INTO chat_model (chat_id, model_id), with the tool ids
set_chat_tools(table, chat_id, tool_ids) ==
    table \o [i \in 1..Len(tool_ids) |-> <<chat_id, tool_ids[i]>>]

(***************************************************************************)
(* App::spawn_inference_task, on the part of the state it reads and        *)
(* writes: st = [handles, tasks, in_progress, title_in_progress, messages] *)
(***************************************************************************)
\* inference_handles_by_chat_and_model.remove(&(chat_id, model_id)), with no chaining
TakeHandle_Forget(handles, chat_id, model_id) == NoHandle

\* inference_handles_by_chat_and_model.remove(&(chat_id, model_id)): the handle taken
TakeHandle(handles, chat_id, model_id) ==
    IF <<chat_id, model_id>> \in DOMAIN handles
    THEN handles[<<chat_id, model_id>>] ELSE NoHandle

\* the new handle dropped instead of stored
RegisterHandle_Drop(handles, chat_id, model_id, handle) == handles

\* inference_handles_by_chat_and_model.insert((chat_id, model_id), handle)
RegisterHandle(handles, chat_id, model_id, handle) ==
    MapInsert(handles, <<chat_id, model_id>>, handle)

\* the async block of tokio::spawn before its first poll
NewTask(model_id, user_message_id, user_message_dt, chat_id, conversation, generate_title, prereq_handle) ==
    [chat_id |-> chat_id, model_id |-> model_id,
     user_message_id |-> user_message_id, user_message_dt |-> user_message_dt,
     conversation |-> conversation, generate_title |-> generate_title,
     prereq_handle |-> prereq_handle,
     pc |-> IF prereq_handle = NoHandle THEN "lock" ELSE "await",
     generation_input |-> <<>>,
     current_conversation |-> IF prereq_handle = NoHandle THEN conversation ELSE <<>>,
     result |-> "pending",
     new_assistant_message |-> <<>>]

\* a spawn that registers the handle of the first link of a chain only
spawn_inference_task_DropsChainTail(st, model_id, user_message_id, user_message_dt, chat_id, conversation, generate_title) ==
    LET prereq_handle == TakeHandle(st.handles, chat_id, model_id)
        removed == MapRemove(st.handles, <<chat_id, model_id>>)
        key == <<user_message_id, model_id>>
    IN IF model_id \notin DOMAIN available_models
       THEN [st EXCEPT !.handles = removed,
                       !.messages = add_chat_message(@,
                           new_assistant_message_with_error(chat_id, model_id,
                               "Model not found", user_message_dt))]
       ELSE IF available_models[model_id].provider_id \notin provider_clients
       THEN [st EXCEPT !.handles = removed,
                       !.messages = add_chat_message(@,
                           new_assistant_message_with_error(chat_id, model_id,
                               "Provider not found", user_message_dt))]
       ELSE [st EXCEPT !.in_progress = @ \cup {key},
                       !.title_in_progress = IF generate_title THEN @ \cup {chat_id} ELSE @,
                       !.tasks = MapInsert(@, key,
                           NewTask(model_id, user_message_id, user_message_dt, chat_id,
                                   conversation, generate_title, prereq_handle)),
                       !.handles = IF prereq_handle = NoHandle
                                    THEN RegisterHandle(removed, chat_id, model_id, key)
                                    ELSE removed]

\* App::spawn_inference_task up to the registration of the new handle
spawn_inference_task(st, model_id, user_message_id, user_message_dt, chat_id, conversation, generate_title) ==
    LET prereq_handle == TakeHandle(st.handles, chat_id, model_id)
        removed == MapRemove(st.handles, <<chat_id, model_id>>)
        key == <<user_message_id, model_id>>
    IN IF model_id \notin DOMAIN available_models
       THEN [st EXCEPT !.handles = removed,
                       !.messages = add_chat_message(@,
                           new_assistant_message_with_error(chat_id, model_id,
                               "Model not found", user_message_dt))]
       ELSE IF available_models[model_id].provider_id \notin provider_clients
       THEN [st EXCEPT !.handles = removed,
                       !.messages = add_chat_message(@,
                           new_assistant_message_with_error(chat_id, model_id,
                               "Provider not found", user_message_dt))]
       ELSE [st EXCEPT !.in_progress = @ \cup {key},
                       !.title_in_progress = IF generate_title THEN @ \cup {chat_id} ELSE @,
                       !.tasks = MapInsert(@, key,
                           NewTask(model_id, user_message_id, user_message_dt, chat_id,
                                   conversation, generate_title, prereq_handle)),
                       !.handles = RegisterHandle(removed, chat_id, model_id, key)]

\* the models the loop of submit_message spawns for, only the first one kept
SpawnTargets_FirstOnly(order) == SubSeq(order, 1, 1)

\* `for (model_id, messages) in curr_messages.iter()`: every entry, in map order
SpawnTargets(order) == order

RECURSIVE SpawnAll(_, _, _, _, _, _, _, _)
SpawnAll(st, order, curr_messages, user_message_id, user_message_dt, chat_id, model_id_for_title_compute, generate_title) ==
    IF order = <<>> THEN st
    ELSE SpawnAll(
            spawn_inference_task(st, Head(order), user_message_id, user_message_dt,
                chat_id, curr_messages[Head(order)],
                Head(order) = model_id_for_title_compute /\ generate_title),
            Tail(order), curr_messages, user_message_id, user_message_dt, chat_id,
            model_id_for_title_compute, generate_title)


(***************************************************************************)
(* The Model Catalog Reconciler: App::refresh_models_with_provider_api, a  *)
(* task of its own.  A provider's live catalog is the set of model names   *)
(* its list-models endpoint returns, or "down" when the fetch fails.       *)
(***************************************************************************)
\* reconciliation passes started in one behaviour
MaxPasses == 2

\* the closure of providers.values().filter_map: is the provider refreshed at `now`
NeedsRefresh(provider, now) ==
    \/ provider.availability_requires_models_response
    \/ /\ provider.models_from_list
       /\ now > provider.last_models_update_timestamp
                    + provider.models_refresh_interval_seconds

\* the lookup built from the models of every provider alike
ExistingModelsMap_AnyProvider(models, provider_id) ==
    LET names == {models[id].model : id \in DOMAIN models}
    IN [name \in names |-> models[CHOOSE id \in DOMAIN models : models[id].model = name]]

\* models_by_provider.get(&provider.id): model name -> Model of that provider
ExistingModelsMap(models, provider_id) ==
    LET own == {id \in DOMAIN models : models[id].provider_id = provider_id}
        names == {models[id].model : id \in own}
    IN [name \in names |-> models[CHOOSE id \in own : models[id].model = name]]

\* every fetched name taken for a new model
ModelsToInsert_All(models_map, existing_models_map) == models_map

\* models_to_insert: the fetched names that are no key of existing_models_map
ModelsToInsert(models_map, existing_models_map) ==
    {name \in models_map : name \notin DOMAIN existing_models_map}

\* removed_model_ids: the ids of the existing models whose name was not fetched
RemovedModelIds(models_map, existing_models_map) ==
    {existing_models_map[name].id : name \in (DOMAIN existing_models_map) \ models_map}

\* what a list-models endpoint answers: a failure, or the names of its models
Down == [ok |-> FALSE, models |-> {}]
Up(names) == [ok |-> TRUE, models |-> names]

\* a failed fetch that leaves the provider's models selectable
TemporarilyUnavailable_None(existing_models_map) == {}

\* existing_models_map.values().cloned().collect(): the models a failed fetch makes
\* temporarily unavailable
TemporarilyUnavailable(existing_models_map) ==
    {existing_models_map[name] : name \in DOMAIN existing_models_map}

\* a pass that selected no provider returns without sending
FirstStep_SilentWhenNoneSelected(providers_to_refresh) ==
    IF providers_to_refresh = <<>> THEN "done" ELSE "lock"

\* where a pass goes after the selection: into the loop, or past it to the send
FirstStep(providers_to_refresh) ==
    IF providers_to_refresh = <<>> THEN "send" ELSE "lock"

\* the task of one pass right after the selection of the providers to refresh; the
\* record also keeps, for the properties, what the pass met at each provider
NewRefresh(now, providers_to_refresh) ==
    [now |-> now,
     all_models |-> all_models,
     provider_clients |-> provider_clients,
     providers_to_refresh |-> providers_to_refresh,
     next |-> 1,
     pc |-> FirstStep(providers_to_refresh),
     models_to_insert |-> {},
     removed_model_ids |-> {},
     all_added_models |-> {},
     all_removed_model_ids |-> {},
     providers_to_remove |-> {},
     temporarily_unavailable_models |-> {},
     fetched |-> EmptyMap,
     diff |-> EmptyMap,
     synced |-> EmptyMap,
     skipped |-> {},
     marked_down_at_start |-> providers_marked_down,
     events_sent |-> 0]

\* the end of one iteration of `for provider in providers_to_refresh`
NextProvider(task) ==
    [task EXCEPT !.next = @ + 1,
                 !.pc = IF task.next >= Len(task.providers_to_refresh)
                        THEN "send" ELSE "lock"]

\* the provider of the iteration a pass is in
ThisProvider(task) == task.providers_to_refresh[task.next]

\* the call of refresh_models_with_provider_api: main hands it clones of the App's
\* providers, provider_clients and all_models; passes do not overlap
refresh_models_spawn ==
    /\ Len(refresh_tasks) < MaxPasses
    /\ refresh_tasks # <<>> => Last(refresh_tasks).pc = "applied"
    /\ LET now == Len(refresh_tasks) + 1
           selected == {p \in DOMAIN providers : NeedsRefresh(providers[p], now)}
       IN \E order \in Orders(selected) :
             refresh_tasks' = Append(refresh_tasks, NewRefresh(now, order))
    /\ UNCHANGED <<run_app_result, model_select_modal, store_vars, app_vars, task_vars, view_vars, live_catalog>>

\* provider_clients.get(&provider.id) is None: the iteration does nothing
refresh_skip_provider(n) ==
    /\ refresh_tasks[n].pc = "lock"
    /\ ThisProvider(refresh_tasks[n]) \notin refresh_tasks[n].provider_clients
    /\ refresh_tasks' = [refresh_tasks EXCEPT ![n] =
           NextProvider([refresh_tasks[n] EXCEPT
               !.skipped = IF live_catalog[ThisProvider(refresh_tasks[n])].ok
                           THEN @ \cup {ThisProvider(refresh_tasks[n])} ELSE @])]
    /\ UNCHANGED <<run_app_result, model_select_modal, store_vars, app_vars, task_vars, view_vars, live_catalog>>

\* client.lock().await returns and get_models is called
refresh_lock_acquired(n) ==
    /\ refresh_tasks[n].pc = "lock"
    /\ ThisProvider(refresh_tasks[n]) \in refresh_tasks[n].provider_clients
    /\ provider_mutex[ThisProvider(refresh_tasks[n])] = Free
    /\ provider_mutex' =
           [provider_mutex EXCEPT ![ThisProvider(refresh_tasks[n])] = <<"refresh", n>>]
    /\ refresh_tasks' = [refresh_tasks EXCEPT ![n].pc = "fetch"]
    /\ UNCHANGED <<run_app_result, model_select_modal, store_vars, app_vars, view_vars, live_catalog, tasks, title_tasks,
                   inference_event_rx>>

\* get_models returns.  Ok: the two sets of the diff are computed and
\* sync_provider_models is called, the guard of the mutex (a temporary of the
\* scrutinee of the match) still held.  Err: the provider's known models and the
\* provider go on the lists of the event, and the guard is dropped
refresh_fetch_returns(n) ==
    /\ refresh_tasks[n].pc = "fetch"
    /\ LET task == refresh_tasks[n]
           provider_id == ThisProvider(task)
           existing_models_map == ExistingModelsMap(task.all_models, provider_id)
           seen == [task EXCEPT !.fetched = MapInsert(@, provider_id, live_catalog[provider_id])]
       IN IF live_catalog[provider_id].ok
          THEN /\ refresh_tasks' = [refresh_tasks EXCEPT ![n] =
                      [seen EXCEPT
                          !.pc = "sync",
                          !.models_to_insert =
                              ModelsToInsert(live_catalog[provider_id].models,
                                             existing_models_map),
                          !.removed_model_ids =
                              RemovedModelIds(live_catalog[provider_id].models,
                                              existing_models_map),
                          !.diff = MapInsert(@, provider_id,
                              [to_insert |-> ModelsToInsert(live_catalog[provider_id].models,
                                                            existing_models_map),
                               to_remove |-> RemovedModelIds(live_catalog[provider_id].models,
                                                             existing_models_map)])]]
               /\ UNCHANGED provider_mutex
          ELSE /\ refresh_tasks' = [refresh_tasks EXCEPT ![n] =
                      NextProvider([seen EXCEPT
                          !.temporarily_unavailable_models =
                              @ \cup TemporarilyUnavailable(existing_models_map),
                          !.providers_to_remove = @ \cup {provider_id}])]
               /\ provider_mutex' = [provider_mutex EXCEPT ![provider_id] = Free]
    /\ UNCHANGED <<run_app_result, model_select_modal, store_vars, app_vars, view_vars, live_catalog, tasks, title_tasks,
                   inference_event_rx>>

\* INSERT INTO model ... RETURNING id, once per name
RECURSIVE InsertModels(_, _, _)
InsertModels(table, provider_id, names) ==
    IF names = <<>> THEN table
    ELSE InsertModels(Append(table, Model(Len(table) + 1, provider_id, Head(names))),
                      provider_id, Tail(names))

\* UPDATE model SET deprecated = 1 WHERE id IN (...)
DeprecateModels(table, ids) ==
    [i \in 1..Len(table) |->
        IF table[i].id \in ids THEN [table[i] EXCEPT !.deprecated = TRUE] ELSE table[i]]

\* Database::sync_provider_models, the committed transaction on table model
sync_provider_models(table, provider_id, models_to_insert, removed_model_ids) ==
    DeprecateModels(InsertModels(table, provider_id, models_to_insert), removed_model_ids)

\* the rows a transaction added to table model
AddedModels(table, table_after) ==
    {table_after[i] : i \in (Len(table) + 1)..Len(table_after)}

\* sync_provider_models returns, committed or failed; the guard of the mutex is
\* dropped at the end of the match
refresh_sync_returns(n) ==
    /\ refresh_tasks[n].pc = "sync"
    /\ LET task == refresh_tasks[n]
           provider_id == ThisProvider(task)
       IN /\ \E ok \in BOOLEAN :
                IF ok
                THEN \E order \in Orders(task.models_to_insert) :
                        /\ db_model' = sync_provider_models(db_model, provider_id, order,
                                                            task.removed_model_ids)
                        /\ db_provider' = [db_provider EXCEPT ![provider_id] = task.now]
                        /\ refresh_tasks' = [refresh_tasks EXCEPT ![n] =
                               NextProvider([task EXCEPT
                                   !.all_removed_model_ids = @ \cup task.removed_model_ids,
                                   !.all_added_models =
                                       @ \cup AddedModels(db_model, db_model'),
                                   !.synced = MapInsert(@, provider_id, "Ok")])]
                ELSE /\ UNCHANGED <<db_model, db_provider>>
                     /\ refresh_tasks' = [refresh_tasks EXCEPT ![n] =
                            NextProvider([task EXCEPT
                                !.synced = MapInsert(@, provider_id, "Err")])]
          /\ provider_mutex' = [provider_mutex EXCEPT ![provider_id] = Free]
    /\ UNCHANGED <<run_app_result, model_select_modal, db_chat, db_chat_model, db_chat_message, now_millis, app_vars,
                   view_vars, live_catalog, tasks, title_tasks, inference_event_rx>>

\* the message of one pass
ModelsRefreshed(task) ==
    [kind |-> "ModelsRefreshed",
     added_models |-> task.all_added_models,
     removed_model_ids |-> task.all_removed_model_ids,
     temporarily_unavailable_models |-> task.temporarily_unavailable_models,
     providers_to_remove |-> task.providers_to_remove]

\* event_tx.send(InferenceEvent::ModelsRefreshed { .. }) after the loop; the task returns
refresh_send(n) ==
    /\ refresh_tasks[n].pc = "send"
    /\ inference_event_rx' = Append(inference_event_rx, ModelsRefreshed(refresh_tasks[n]))
    /\ refresh_tasks' = [refresh_tasks EXCEPT ![n].pc = "done", ![n].events_sent = @ + 1]
    /\ UNCHANGED <<run_app_result, model_select_modal, store_vars, app_vars, view_vars, live_catalog, tasks, title_tasks,
                   provider_mutex>>

\* the answers a provider's endpoint may give
LiveCatalogs == {Down, Up({"m1"}), Up({"m1", "m3"})}

\* the world: the endpoint of one provider changes its answer.  A pass asks each
\* endpoint once, so that a change during a pass is to the pass a change before it
live_catalog_changes ==
    /\ refresh_tasks # <<>> => Last(refresh_tasks).pc = "applied"
    /\ \E p \in DOMAIN live_catalog : \E live \in LiveCatalogs \ {live_catalog[p]} :
          live_catalog' = [live_catalog EXCEPT ![p] = live]
    /\ UNCHANGED <<run_app_result, model_select_modal, store_vars, app_vars, task_vars, view_vars, refresh_tasks>>


(***************************************************************************)
(* Handlers of the control loop.                                           *)
(***************************************************************************)
\* the navigation state reset for the models of a profile
ResetNavigation(profile) == [m \in Range(profile.model_ids) |-> 0]

\* a create_new_chat that inserts the chat on creation
create_new_chat_InsertsRow ==
    /\ state = "Normal"
    /\ Len(chat_history) < MaxChats
    /\ db_chat' = Append(db_chat, Chat(Len(db_chat) + 1, NoText))
    /\ current_chat' = Chat(Len(db_chat) + 1, NoText)
    /\ state' = "Normal"
    /\ current_messages' = EmptyMap
    /\ current_chat_profile' = default_profile
    /\ current_model_idx' = 0
    /\ current_message_index' = ResetNavigation(default_profile)
    /\ chat_history' = <<Chat(Len(db_chat) + 1, NoText)>> \o chat_history
    /\ chat_history_index' = 0
    /\ UNCHANGED <<run_app_result, model_select_modal, db_chat_model, db_chat_message, now_millis, db_model,
                   db_provider, task_vars, view_vars, catalog_vars, catalog_app_vars,
                   default_profile, title_inference_in_progress_by_chat,
                   inference_in_progress_by_message_and_model,
                   inference_handles_by_chat_and_model, provider_clients,
                   available_models>>

\* App::create_new_chat, key 'n'
create_new_chat ==
    /\ state = "Normal"
    /\ Len(chat_history) < MaxChats
    /\ current_chat' = Chat(0, NoText)
    /\ state' = "Normal"
    /\ current_messages' = EmptyMap
    /\ current_chat_profile' = default_profile
    /\ current_model_idx' = 0
    /\ current_message_index' = ResetNavigation(default_profile)
    /\ chat_history' = <<Chat(0, NoText)>> \o chat_history
    /\ chat_history_index' = 0
    /\ UNCHANGED <<run_app_result, model_select_modal, store_vars, task_vars, view_vars, catalog_vars, catalog_app_vars,
                   default_profile, title_inference_in_progress_by_chat,
                   inference_in_progress_by_message_and_model,
                   inference_handles_by_chat_and_model, provider_clients,
                   available_models>>

\* App::load_selected_chat for the entry `index` of `history`
load_selected_chat(history, index) ==
    IF index < Len(history)
    THEN LET chat == history[index + 1]
             model_ids == get_chat_models_ids(chat.id)
             profile == IF chat.id # 0
                        THEN [chat_id |-> chat.id, model_ids |-> model_ids, tool_ids |-> <<>>]
                        ELSE default_profile
         IN /\ current_chat' = chat
            /\ current_messages' =
                   IF chat.id # 0
                   THEN BuildViews(get_chat_messages(chat.id), model_ids, EmptyMap)
                   ELSE EmptyMap
            /\ current_chat_profile' = profile
            /\ current_model_idx' = 0
            /\ current_message_index' = ResetNavigation(profile)
    ELSE UNCHANGED <<current_chat, current_messages, current_chat_profile,
                     current_model_idx, current_message_index>>

\* keys 'z' and 'q' with any count: the index moves within the history and the
\* entry under it is loaded
navigate_chat_history ==
    /\ state = "Normal"
    /\ \E index \in 0..(IF Len(chat_history) = 0 THEN 0 ELSE Len(chat_history) - 1) :
          /\ chat_history_index' = index
          /\ load_selected_chat(chat_history, index)
    /\ UNCHANGED <<run_app_result, model_select_modal, store_vars, task_vars, view_vars, catalog_vars, catalog_app_vars, state,
                   default_profile, chat_history, title_inference_in_progress_by_chat,
                   inference_in_progress_by_message_and_model,
                   inference_handles_by_chat_and_model, provider_clients,
                   available_models>>

\* the models of the current profile that submit_message finds unavailable
UnavailableModels ==
    {model_id \in Range(current_chat_profile.model_ids) :
        model_id \notin DOMAIN available_models}

\* submit_message when a model of the profile is unavailable: the error dialog opens
\* and the handler returns
submit_refused ==
    /\ state' = "UnavailableModelsError"
    /\ UNCHANGED <<run_app_result, model_select_modal, store_vars, task_vars, view_vars, catalog_vars, catalog_app_vars,
                   default_profile, current_chat, current_model_idx, current_chat_profile,
                   chat_history, chat_history_index, current_messages,
                   current_message_index, title_inference_in_progress_by_chat,
                   inference_in_progress_by_message_and_model,
                   inference_handles_by_chat_and_model, provider_clients,
                   available_models>>

\* submit_message when every model of the profile is available
submit_accepted ==
    /\ Cardinality(DOMAIN tasks) + Len(current_chat_profile.model_ids) <= MaxTasks
    \* Enter is matched after the lookup model_ids[current_model_idx], which panics
    \* when the index is not one of the list
    /\ current_model_idx < Len(current_chat_profile.model_ids)
    \* chat_history[chat_history_index] of a new chat is an entry of the history
    /\ current_chat.id = 0 => chat_history_index < Len(chat_history)
    /\ LET is_new == current_chat.id = 0
           chat_id == IF is_new THEN Len(db_chat) + 1 ELSE current_chat.id
           generate_title == is_new
           messages0 == IF is_new
                        THEN [m \in (DOMAIN current_messages)
                                    \cup Range(current_chat_profile.model_ids) |->
                                 IF m \in Range(current_chat_profile.model_ids)
                                 THEN <<>> ELSE current_messages[m]]
                        ELSE current_messages
           dt == now_millis + 1
           user_message_id == Len(db_chat_message) + 1
           user_message == [new_user_message(chat_id, dt) EXCEPT !.id = user_message_id]
           model_id_for_title_compute == current_chat_profile.model_ids[1]
           curr_messages == [m \in DOMAIN messages0 |-> Append(messages0[m], user_message)]
           st0 == [handles |-> inference_handles_by_chat_and_model,
                   tasks |-> tasks,
                   in_progress |-> inference_in_progress_by_message_and_model,
                   title_in_progress |-> title_inference_in_progress_by_chat,
                   messages |-> add_chat_message(db_chat_message,
                                                 new_user_message(chat_id, dt))]
       IN /\ now_millis' = dt
          /\ db_chat' = IF is_new THEN Append(db_chat, Chat(chat_id, NoText)) ELSE db_chat
          \* tokio::join! runs the two inserts concurrently: either commits first
          /\ \E models_first \in IF is_new /\ current_chat_profile.tool_ids # <<>>
                                 THEN BOOLEAN ELSE {TRUE} :
                db_chat_model' =
                    IF ~is_new THEN db_chat_model
                    ELSE IF models_first
                    THEN set_chat_tools(set_chat_models(db_chat_model, chat_id,
                                                        current_chat_profile.model_ids),
                                        chat_id, current_chat_profile.tool_ids)
                    ELSE set_chat_models(set_chat_tools(db_chat_model, chat_id,
                                                        current_chat_profile.tool_ids),
                                         chat_id, current_chat_profile.model_ids)
          /\ current_chat' = [current_chat EXCEPT !.id = chat_id]
          /\ chat_history' = IF is_new
                             THEN [chat_history EXCEPT ![chat_history_index + 1].id = chat_id]
                             ELSE chat_history
          /\ current_messages' = curr_messages
          /\ current_message_index' =
                 [m \in DOMAIN current_message_index |->
                     IF m \in DOMAIN curr_messages
                     THEN Len(curr_messages[m]) - 1 ELSE current_message_index[m]]
          /\ \E order \in Orders(DOMAIN curr_messages) :
                LET st == SpawnAll(st0, SpawnTargets(order), curr_messages, user_message_id,
                                   dt, chat_id, model_id_for_title_compute, generate_title)
                IN /\ inference_handles_by_chat_and_model' = st.handles
                   /\ tasks' = st.tasks
                   /\ inference_in_progress_by_message_and_model' = st.in_progress
                   /\ title_inference_in_progress_by_chat' = st.title_in_progress
                   /\ db_chat_message' = st.messages
    /\ state' = "Normal"
    /\ UNCHANGED <<run_app_result, model_select_modal, view_vars, catalog_vars, catalog_app_vars, db_model, db_provider,
                   default_profile, current_model_idx, current_chat_profile,
                   chat_history_index, provider_clients, available_models,
                   title_tasks, provider_mutex, inference_event_rx>>

\* App::submit_message when a write to the store fails at `failed`: the `?` returns
\* the error through handle_key_event to run_app, which returns it
submit_message_store_fails ==
    /\ state = "Normal"
    /\ UnavailableModels = {}
    /\ current_chat_profile.model_ids # <<>>
    /\ \E failed \in {"create_chat", "set_chat_models", "add_chat_message"} :
          LET is_new == current_chat.id = 0
              chat_id == Len(db_chat) + 1
              created == is_new /\ failed # "create_chat"
          IN /\ failed \in {"create_chat", "set_chat_models"} => is_new
             /\ db_chat' = IF created THEN Append(db_chat, Chat(chat_id, NoText)) ELSE db_chat
             /\ db_chat_model' = IF is_new /\ failed = "add_chat_message"
                                 THEN set_chat_tools(
                                          set_chat_models(db_chat_model, chat_id,
                                                          current_chat_profile.model_ids),
                                          chat_id, current_chat_profile.tool_ids)
                                 ELSE db_chat_model
             /\ current_chat' = IF created THEN [current_chat EXCEPT !.id = chat_id]
                                ELSE current_chat
             /\ chat_history' = IF created
                                THEN [chat_history EXCEPT ![chat_history_index + 1].id = chat_id]
                                ELSE chat_history
             /\ current_messages' =
                    IF created
                    THEN [m \in (DOMAIN current_messages)
                                   \cup Range(current_chat_profile.model_ids) |->
                             IF m \in Range(current_chat_profile.model_ids)
                             THEN <<>> ELSE current_messages[m]]
                    ELSE current_messages
    /\ run_app_result' = "Err"
    /\ UNCHANGED <<model_select_modal, db_chat_message, now_millis, db_model, db_provider, task_vars, view_vars,
                   catalog_vars, catalog_app_vars, state, default_profile, current_model_idx,
                   current_chat_profile, chat_history_index, current_message_index,
                   title_inference_in_progress_by_chat,
                   inference_in_progress_by_message_and_model,
                   inference_handles_by_chat_and_model, provider_clients, available_models>>

\* App::submit_message for a new chat when chat_history_index is no index of
\* chat_history: create_chat has stored the chat and current_chat has its id when
\* `self.chat_history[self.chat_history_index].id = chat_id` panics
submit_message_history_out_of_bounds ==
    /\ state = "Normal"
    /\ current_model_idx < Len(current_chat_profile.model_ids)
    /\ UnavailableModels = {}
    /\ current_chat.id = 0
    /\ chat_history_index >= Len(chat_history)
    /\ db_chat' = Append(db_chat, Chat(Len(db_chat) + 1, NoText))
    /\ current_chat' = [current_chat EXCEPT !.id = Len(db_chat) + 1]
    /\ run_app_result' = "Panic"
    /\ UNCHANGED <<model_select_modal, db_chat_model, db_chat_message, now_millis, db_model,
                   db_provider, task_vars, view_vars, catalog_vars, catalog_app_vars,
                   state, default_profile, current_model_idx, current_chat_profile,
                   chat_history, chat_history_index, current_messages,
                   current_message_index, title_inference_in_progress_by_chat,
                   inference_in_progress_by_message_and_model,
                   inference_handles_by_chat_and_model, provider_clients,
                   available_models>>

\* App::submit_message with a non-empty prompt, key Enter
submit_message ==
    /\ state = "Normal"
    /\ IF UnavailableModels # {} THEN submit_refused ELSE submit_accepted

\* Ctrl-t in normal mode: the title dialog opens for a chat that exists in the store
open_title_edit_dialog ==
    /\ state = "Normal"
    /\ current_chat.id # 0
    /\ state' = "TitleEdit"
    /\ UNCHANGED <<run_app_result, model_select_modal, store_vars, task_vars, view_vars, catalog_vars, catalog_app_vars,
                   default_profile, current_chat, current_model_idx, current_chat_profile,
                   chat_history, chat_history_index, current_messages,
                   current_message_index, title_inference_in_progress_by_chat,
                   inference_in_progress_by_message_and_model,
                   inference_handles_by_chat_and_model, provider_clients,
                   available_models>>

\* UPDATE chat SET title = ? WHERE id = ?
update_chat_title(table, chat_id, title) ==
    [i \in 1..Len(table) |->
        IF table[i].id = chat_id THEN [table[i] EXCEPT !.title = title] ELSE table[i]]

\* App::handle_title_edit_key: Enter with the trimmed text new_title ("" also stands
\* for Esc, which closes the dialog without a change)
handle_title_edit_key ==
    /\ state = "TitleEdit"
    /\ \E new_title \in {"", "user"} :
          IF new_title # ""
          THEN /\ db_chat' = update_chat_title(db_chat, current_chat.id, new_title)
               /\ current_chat' = [current_chat EXCEPT !.title = new_title]
               /\ chat_history' =
                      IF chat_history_index < Len(chat_history)
                      THEN [chat_history EXCEPT ![chat_history_index + 1].title = new_title]
                      ELSE chat_history
          ELSE UNCHANGED <<db_chat, current_chat, chat_history>>
    /\ state' = "Normal"
    /\ UNCHANGED <<run_app_result, model_select_modal, db_chat_model, db_chat_message, now_millis, db_model, db_provider,
                   task_vars, view_vars, catalog_vars, catalog_app_vars,
                   default_profile, current_model_idx, current_chat_profile,
                   chat_history_index, current_messages,
                   current_message_index, title_inference_in_progress_by_chat,
                   inference_in_progress_by_message_and_model,
                   inference_handles_by_chat_and_model, provider_clients,
                   available_models>>

\* the keys of normal mode, with an empty prompt, that move within the view shown
MessageCursorKeys == {"gg", "j", "k", "G"}

\* handle_normal_mode_key, keys 'g' 'g', 'j', 'k' and 'G': the cursor of the model
\* shown moves to the first, the next, the previous or the last message of its view
\* ('j' and 'k' may move within the chunks of one message instead)
handle_message_cursor_key ==
    /\ state = "Normal"
    /\ current_model_idx < Len(current_chat_profile.model_ids)
    /\ LET model_id == current_chat_profile.model_ids[current_model_idx + 1]
           current_msg_idx == IF model_id \in DOMAIN current_message_index
                              THEN current_message_index[model_id] ELSE 0
           total_messages == IF model_id \in DOMAIN current_messages
                             THEN Len(current_messages[model_id]) ELSE 0
       IN \E key \in MessageCursorKeys :
             current_message_index' =
                 IF key = "gg" /\ model_id \in DOMAIN current_message_index
                 THEN MapInsert(current_message_index, model_id, 0)
                 ELSE IF key = "j" /\ current_msg_idx + 1 < total_messages
                 THEN MapInsert(current_message_index, model_id, current_msg_idx + 1)
                 ELSE IF key = "k" /\ current_msg_idx > 0
                 THEN MapInsert(current_message_index, model_id, current_msg_idx - 1)
                 ELSE IF /\ key = "G"
                         /\ model_id \in DOMAIN current_message_index
                         /\ total_messages > 0
                 THEN MapInsert(current_message_index, model_id, total_messages - 1)
                 ELSE current_message_index
    /\ UNCHANGED <<run_app_result, model_select_modal, store_vars, task_vars, view_vars, catalog_vars, catalog_app_vars,
                   default_profile, current_chat, current_model_idx, current_chat_profile,
                   chat_history, chat_history_index, current_messages, state,
                   title_inference_in_progress_by_chat,
                   inference_in_progress_by_message_and_model,
                   inference_handles_by_chat_and_model, provider_clients,
                   available_models>>

\* the new assistant turn inserted at the origin's own index
InsertIdx_AtOrigin(messages, origin_message_id) ==
    IF PositionById(messages, origin_message_id) >= 0
    THEN PositionById(messages, origin_message_id)
    ELSE Len(messages)

\* the index at which handle_inference_event inserts the new assistant turn
InsertIdx(messages, origin_message_id) ==
    IF PositionById(messages, origin_message_id) >= 0
    THEN PositionById(messages, origin_message_id) + 1
    ELSE Len(messages)

\* the cursor moved when it is at or before the insert position, as the comment of
\* the handler words it
CursorAfterInsert_AsCommented(curr_index, insert_idx) ==
    IF curr_index <= insert_idx THEN curr_index + 1 ELSE curr_index

\* `*curr_index >= insert_idx` => `*curr_index = *curr_index + 1`
CursorAfterInsert(curr_index, insert_idx) ==
    IF curr_index >= insert_idx THEN curr_index + 1 ELSE curr_index

\* App::is_message_loading
is_message_loading(model_id, message_id) ==
    <<message_id, model_id>> \in inference_in_progress_by_message_and_model

\* a handler that clears the pending flag of the current chat's messages only
handle_inference_complete_CurrentChatOnly(event) ==
    /\ inference_in_progress_by_message_and_model' =
           IF event.chat_id = current_chat.id
           THEN inference_in_progress_by_message_and_model
                    \ {<<event.origin_message_id, event.model_id>>}
           ELSE inference_in_progress_by_message_and_model
    /\ IF event.chat_id = current_chat.id
       THEN LET messages == IF event.model_id \in DOMAIN current_messages
                            THEN current_messages[event.model_id] ELSE <<>>
                insert_idx == InsertIdx(messages, event.origin_message_id)
            IN /\ current_messages' =
                      MapInsert(current_messages, event.model_id,
                                VecInsert(messages, insert_idx, event.result))
               /\ current_message_index' =
                      [m \in DOMAIN current_message_index |->
                          IF m = event.model_id
                          THEN CursorAfterInsert(current_message_index[m], insert_idx)
                          ELSE current_message_index[m]]
       ELSE UNCHANGED <<current_messages, current_message_index>>
    /\ UNCHANGED <<db_chat, current_chat, chat_history,
                   title_inference_in_progress_by_chat, catalog_handler_vars>>

\* handle_inference_event, InferenceEvent::InferenceComplete
handle_inference_complete(event) ==
    /\ inference_in_progress_by_message_and_model' =
           inference_in_progress_by_message_and_model
               \ {<<event.origin_message_id, event.model_id>>}
    /\ IF event.chat_id = current_chat.id
       THEN LET messages == IF event.model_id \in DOMAIN current_messages
                            THEN current_messages[event.model_id] ELSE <<>>
                insert_idx == InsertIdx(messages, event.origin_message_id)
            IN /\ current_messages' =
                      MapInsert(current_messages, event.model_id,
                                VecInsert(messages, insert_idx, event.result))
               /\ current_message_index' =
                      [m \in DOMAIN current_message_index |->
                          IF m = event.model_id
                          THEN CursorAfterInsert(current_message_index[m], insert_idx)
                          ELSE current_message_index[m]]
       ELSE UNCHANGED <<current_messages, current_message_index>>
    /\ UNCHANGED <<db_chat, current_chat, chat_history,
                   title_inference_in_progress_by_chat, catalog_handler_vars>>

\* the derived title applied whatever title the chat has
TitleIsNone_Ignored(chat) == TRUE

\* chat.title.is_none()
TitleIsNone(chat) == chat.title = NoText

\* handle_inference_event, InferenceEvent::TitleInferenceComplete
handle_title_inference_complete(event) ==
    LET hit == {i \in 1..Len(chat_history) : chat_history[i].id = event.chat_id}
        first == CHOOSE i \in hit : \A j \in hit : i <= j
    IN IF hit # {} /\ TitleIsNone(chat_history[first])
       THEN /\ db_chat' = update_chat_title(db_chat, event.chat_id, event.title)
            /\ title_inference_in_progress_by_chat' =
                   title_inference_in_progress_by_chat \ {event.chat_id}
            /\ chat_history' = [chat_history EXCEPT ![first].title = event.title]
            /\ current_chat' = [current_chat EXCEPT !.title = event.title]
            /\ UNCHANGED <<current_messages, current_message_index,
                           inference_in_progress_by_message_and_model,
                           catalog_handler_vars>>
       ELSE UNCHANGED <<db_chat, title_inference_in_progress_by_chat, chat_history,
                        current_chat, current_messages, current_message_index,
                        inference_in_progress_by_message_and_model,
                        catalog_handler_vars>>

\* provider_api_keys_set.get(&provider_id).unwrap_or(&false)
ApiKeySet(provider_id) ==
    provider_id \in DOMAIN provider_api_keys_set /\ provider_api_keys_set[provider_id]

\* a handler that leaves the models of a provider marked down selectable
handle_models_refreshed_KeepsUnavailable(event) ==
    LET added_ids == {model.id : model \in event.added_models}
        added == [id \in added_ids |-> CHOOSE model \in event.added_models : model.id = id]
        with_key == {id \in added_ids : ApiKeySet(added[id].provider_id)}
        unavailable_ids == {model.id : model \in event.temporarily_unavailable_models}
    IN /\ all_models' =
              [id \in ((DOMAIN all_models) \ event.removed_model_ids) \cup added_ids |->
                  IF id \in added_ids THEN added[id] ELSE all_models[id]]
       /\ available_models' =
              [id \in ((((DOMAIN available_models) \ event.removed_model_ids)
                          \cup with_key) \ {}) |->
                  IF id \in added_ids THEN added[id] ELSE available_models[id]]
       /\ provider_api_keys_set' =
              [p \in (DOMAIN provider_api_keys_set) \ event.providers_to_remove |->
                  provider_api_keys_set[p]]
       /\ provider_clients' = provider_clients \ event.providers_to_remove
       /\ providers_marked_down' = providers_marked_down \cup event.providers_to_remove
       /\ UNCHANGED <<db_chat, current_chat, chat_history, current_messages,
                      current_message_index, title_inference_in_progress_by_chat,
                      inference_in_progress_by_message_and_model>>

\* handle_inference_event, InferenceEvent::ModelsRefreshed
handle_models_refreshed(event) ==
    LET added_ids == {model.id : model \in event.added_models}
        added == [id \in added_ids |-> CHOOSE model \in event.added_models : model.id = id]
        with_key == {id \in added_ids : ApiKeySet(added[id].provider_id)}
        unavailable_ids == {model.id : model \in event.temporarily_unavailable_models}
    IN /\ all_models' =
              [id \in ((DOMAIN all_models) \ event.removed_model_ids) \cup added_ids |->
                  IF id \in added_ids THEN added[id] ELSE all_models[id]]
       /\ available_models' =
              [id \in ((((DOMAIN available_models) \ event.removed_model_ids)
                          \cup with_key) \ unavailable_ids) |->
                  IF id \in added_ids THEN added[id] ELSE available_models[id]]
       /\ provider_api_keys_set' =
              [p \in (DOMAIN provider_api_keys_set) \ event.providers_to_remove |->
                  provider_api_keys_set[p]]
       /\ provider_clients' = provider_clients \ event.providers_to_remove
       /\ providers_marked_down' = providers_marked_down \cup event.providers_to_remove
       /\ UNCHANGED <<db_chat, current_chat, chat_history, current_messages,
                      current_message_index, title_inference_in_progress_by_chat,
                      inference_in_progress_by_message_and_model>>

\* the control loop takes the oldest event of the channel; refresh_tasks notes
\* that the event of the last pass was handled
handle_inference_event ==
    /\ inference_event_rx # <<>>
    /\ inference_event_rx' = Tail(inference_event_rx)
    /\ IF Head(inference_event_rx).kind = "InferenceComplete"
       THEN handle_inference_complete(Head(inference_event_rx))
       ELSE IF Head(inference_event_rx).kind = "TitleInferenceComplete"
       THEN handle_title_inference_complete(Head(inference_event_rx))
       ELSE handle_models_refreshed(Head(inference_event_rx))
    /\ refresh_tasks' =
           IF Head(inference_event_rx).kind = "ModelsRefreshed"
           THEN [refresh_tasks EXCEPT ![Len(refresh_tasks)].pc = "applied"]
           ELSE refresh_tasks
    /\ UNCHANGED <<run_app_result, model_select_modal, db_chat_model, db_chat_message, now_millis, db_model, db_provider,
                   view_vars, live_catalog, default_profile, state, providers,
                   current_model_idx, current_chat_profile, chat_history_index,
                   inference_handles_by_chat_and_model, tasks, title_tasks, provider_mutex>>

\* handle_inference_event, TitleInferenceComplete, when update_chat_title fails: the
\* `?` returns the error to run_app before any field is written
handle_title_store_fails ==
    /\ inference_event_rx # <<>>
    /\ Head(inference_event_rx).kind = "TitleInferenceComplete"
    /\ \E i \in 1..Len(chat_history) :
          /\ chat_history[i].id = Head(inference_event_rx).chat_id
          /\ \A j \in 1..(i - 1) : chat_history[j].id # Head(inference_event_rx).chat_id
          /\ TitleIsNone(chat_history[i])
    /\ inference_event_rx' = Tail(inference_event_rx)
    /\ run_app_result' = "Err"
    /\ UNCHANGED <<model_select_modal, store_vars, app_vars, view_vars, catalog_vars, tasks, title_tasks,
                   provider_mutex>>


(***************************************************************************)
(* The inference task of spawn_inference_task, one action per stretch      *)
(* between two suspension points.                                          *)
(***************************************************************************)
\* the conversation of a link whose prerequisite resolved, taken from the
\* snapshot of submission time alone
ChainConversation_Stale(joinhandle_conversation, conversation) == conversation

\* Ok(joinhandle_conversation): the prerequisite's conversation plus the newest prompt
ChainConversation(joinhandle_conversation, conversation) ==
    IF conversation # <<>>
    THEN Append(joinhandle_conversation, Last(conversation))
    ELSE joinhandle_conversation

\* existing_handle.await polled without waiting for the prerequisite
PrereqResolved_NoWait(handle) == TRUE

\* existing_handle.await is ready: the prerequisite task has returned
PrereqResolved(handle) == tasks[handle].pc = "done"

\* existing_handle.await returns Ok(joinhandle_conversation)
task_prereq_resolved(key) ==
    /\ tasks[key].pc = "await"
    /\ PrereqResolved(tasks[key].prereq_handle)
    /\ tasks' = [tasks EXCEPT
           ![key].pc = "lock",
           ![key].current_conversation =
               ChainConversation(tasks[tasks[key].prereq_handle].current_conversation,
                                 tasks[key].conversation)]
    /\ UNCHANGED <<run_app_result, model_select_modal, store_vars, app_vars, view_vars, catalog_vars, title_tasks, provider_mutex,
                   inference_event_rx>>

\* a fallback that forgets the conversation
FallbackConversation_Empty(conversation) == <<>>

\* Err(_) of existing_handle.await: the conversation handed over at submission
FallbackConversation(conversation) == conversation

\* existing_handle.await returns Err(JoinError): the prerequisite task has panicked
task_prereq_failed(key) ==
    /\ tasks[key].pc = "await"
    /\ tasks[tasks[key].prereq_handle].pc = "panicked"
    /\ tasks' = [tasks EXCEPT
           ![key].pc = "lock",
           ![key].current_conversation = FallbackConversation(tasks[key].conversation)]
    /\ UNCHANGED <<run_app_result, model_select_modal, store_vars, app_vars, view_vars,
                   catalog_vars, title_tasks, provider_mutex, inference_event_rx>>

\* provider_client.lock().await returns and ProviderClient::run is called
task_lock_acquired(key) ==
    /\ tasks[key].pc = "lock"
    /\ provider_mutex[ProviderOf(tasks[key].model_id)] = Free
    /\ provider_mutex' =
           [provider_mutex EXCEPT ![ProviderOf(tasks[key].model_id)] = <<"inference", key>>]
    /\ tasks' = [tasks EXCEPT ![key].pc = "run",
                              ![key].generation_input = tasks[key].current_conversation]
    /\ UNCHANGED <<run_app_result, model_select_modal, store_vars, app_vars, view_vars, catalog_vars, title_tasks, inference_event_rx>>

\* a failed provider call reported as an ordinary answer
AssistantMessageOf_ErrorAsContent(task, ok) ==
    new_assistant_message(task.chat_id, task.model_id, "response", task.user_message_dt)

\* the message built from the result of ProviderClient::run
AssistantMessageOf(task, ok) ==
    IF ok
    THEN new_assistant_message(task.chat_id, task.model_id, "response",
                               task.user_message_dt)
    ELSE new_assistant_message_with_error(task.chat_id, task.model_id,
                                          "Inference failed", task.user_message_dt)

\* ProviderClient::run returns (ok or not): the guard of the mutex is dropped, the
\* assistant message is built and the completion event is sent
task_provider_returns(key) ==
    /\ tasks[key].pc = "run"
    /\ \E ok \in BOOLEAN :
          /\ tasks' = [tasks EXCEPT
                 ![key].pc = "write",
                 ![key].result = IF ok THEN "Ok" ELSE "Err",
                 ![key].new_assistant_message = AssistantMessageOf(tasks[key], ok)]
          /\ inference_event_rx' = Append(inference_event_rx,
                 [kind |-> "InferenceComplete",
                  chat_id |-> tasks[key].chat_id,
                  model_id |-> tasks[key].model_id,
                  origin_message_id |-> tasks[key].user_message_id,
                  result |-> AssistantMessageOf(tasks[key], ok)])
    /\ provider_mutex' = [provider_mutex EXCEPT ![ProviderOf(tasks[key].model_id)] = Free]
    /\ UNCHANGED <<run_app_result, model_select_modal, store_vars, app_vars, view_vars, catalog_vars, title_tasks>>

\* ProviderClient::run panics: the unwinding drops the guard of the mutex, the task
\* ends without an event and without a message, and its JoinHandle resolves to Err
task_provider_panics(key) ==
    /\ tasks[key].pc = "run"
    /\ tasks' = [tasks EXCEPT ![key].pc = "panicked", ![key].result = "Panic"]
    /\ provider_mutex' = [provider_mutex EXCEPT ![ProviderOf(tasks[key].model_id)] = Free]
    /\ UNCHANGED <<run_app_result, model_select_modal, store_vars, app_vars, view_vars,
                   catalog_vars, title_tasks, inference_event_rx>>

\* a task that spawns a title task whatever generate_title says
task_db_write_AlwaysTitle(key) ==
    /\ tasks[key].pc = "write"
    /\ db_chat_message' = add_chat_message(db_chat_message, tasks[key].new_assistant_message)
    /\ tasks' = [tasks EXCEPT
           ![key].pc = "done",
           ![key].current_conversation = Append(@, tasks[key].new_assistant_message)]
    /\ title_tasks' = IF TRUE
                      THEN MapInsert(title_tasks, key,
                               [chat_id |-> tasks[key].chat_id,
                                model_id |-> tasks[key].model_id, pc |-> "lock",
                                title_result |-> "pending"])
                      ELSE title_tasks
    /\ UNCHANGED <<run_app_result, model_select_modal, db_chat, db_chat_model, now_millis, db_model, db_provider, app_vars,
                   view_vars, catalog_vars, provider_mutex, inference_event_rx>>

\* database.add_chat_message returns: the message is in the store, the task pushes
\* it on its conversation, spawns the title task if asked to, and returns
task_db_write(key) ==
    /\ tasks[key].pc = "write"
    /\ db_chat_message' = add_chat_message(db_chat_message, tasks[key].new_assistant_message)
    /\ tasks' = [tasks EXCEPT
           ![key].pc = "done",
           ![key].current_conversation = Append(@, tasks[key].new_assistant_message)]
    /\ title_tasks' = IF tasks[key].generate_title
                      THEN MapInsert(title_tasks, key,
                               [chat_id |-> tasks[key].chat_id,
                                model_id |-> tasks[key].model_id, pc |-> "lock",
                                title_result |-> "pending"])
                      ELSE title_tasks
    /\ UNCHANGED <<run_app_result, model_select_modal, db_chat, db_chat_model, now_millis, db_model, db_provider, app_vars,
                   view_vars, catalog_vars, provider_mutex, inference_event_rx>>

\* the title task: provider_client.lock().await returns
title_lock_acquired(key) ==
    /\ title_tasks[key].pc = "lock"
    /\ provider_mutex[ProviderOf(title_tasks[key].model_id)] = Free
    /\ provider_mutex' =
           [provider_mutex EXCEPT ![ProviderOf(title_tasks[key].model_id)] = <<"title", key>>]
    /\ title_tasks' = [title_tasks EXCEPT ![key].pc = "run"]
    /\ UNCHANGED <<run_app_result, model_select_modal, store_vars, app_vars, view_vars, catalog_vars, tasks, inference_event_rx>>

\* the title task: ProviderClient::run returns; a title is sent only on success
title_provider_returns(key) ==
    /\ title_tasks[key].pc = "run"
    /\ \E ok \in BOOLEAN :
          /\ inference_event_rx' =
                 IF ok
                 THEN Append(inference_event_rx,
                             [kind |-> "TitleInferenceComplete",
                              chat_id |-> title_tasks[key].chat_id, title |-> "derived"])
                 ELSE inference_event_rx
          /\ title_tasks' = [title_tasks EXCEPT
                 ![key].pc = "done",
                 ![key].title_result = IF ok THEN "Ok" ELSE "Err"]

    /\ provider_mutex' =
           [provider_mutex EXCEPT ![ProviderOf(title_tasks[key].model_id)] = Free]
    /\ UNCHANGED <<run_app_result, model_select_modal, store_vars, app_vars, view_vars, catalog_vars, tasks>>

(***************************************************************************)
(* The specification of the orchestrator: App::new on an empty store, then *)
(* the control loop and the spawned tasks interleaved.                     *)
(***************************************************************************)
ViewIdle ==
    /\ vb_all_chat_messages = <<>>
    /\ vb_model_ids = <<>>
    /\ vb_views = EmptyMap
    /\ vb_built = FALSE

\* the default profiles the store may hold at startup
DefaultProfiles ==
    {[chat_id |-> 0, model_ids |-> ids, tool_ids |-> <<>>] : ids \in {<<1>>, <<1, 2>>}}

\* App::new on a store without chats, followed by create_new_chat
InitApp(profile) ==
    /\ db_chat = <<>>
    /\ db_chat_model = <<>>
    /\ db_chat_message = <<>>
    /\ now_millis = 0
    /\ default_profile = profile
    /\ current_chat = Chat(0, NoText)
    /\ current_model_idx = 0
    /\ current_chat_profile = profile
    /\ chat_history = <<Chat(0, NoText)>>
    /\ chat_history_index = 0
    /\ current_messages = EmptyMap
    /\ current_message_index = ResetNavigation(profile)
    /\ title_inference_in_progress_by_chat = {}
    /\ inference_in_progress_by_message_and_model = {}
    /\ inference_handles_by_chat_and_model = EmptyMap
    /\ db_model = <<Model(1, 1, "m1"), Model(2, 1, "m2")>>
    /\ db_provider = [p \in Providers |-> 0]
    /\ state = "Normal"
    /\ providers = [p \in Providers |-> Provider(p, FALSE, FALSE, 0, 0)]
    /\ provider_api_keys_set = [p \in Providers |-> TRUE]
    /\ providers_marked_down = {}
    /\ provider_clients = Providers
    /\ all_models = [m \in Models |-> db_model[m]]
    /\ available_models = [m \in Models |-> db_model[m]]
    /\ refresh_tasks = <<>>
    /\ live_catalog = [p \in Providers |-> Up({"m1", "m2"})]
    /\ run_app_result = "running"
    /\ model_select_modal = NoModal
    /\ tasks = EmptyMap
    /\ title_tasks = EmptyMap
    /\ provider_mutex = [p \in Providers |-> Free]
    /\ inference_event_rx = <<>>

Init ==
    /\ \E profile \in DefaultProfiles : InitApp(profile)
    /\ ViewIdle

Next ==
    \/ create_new_chat
    \/ navigate_chat_history
    \/ submit_message
    \/ handle_inference_event
    \/ \E key \in DOMAIN tasks : task_prereq_resolved(key)
    \/ \E key \in DOMAIN tasks : task_lock_acquired(key)
    \/ \E key \in DOMAIN tasks : task_provider_returns(key)
    \/ \E key \in DOMAIN tasks : task_db_write(key)
    \/ \E key \in DOMAIN title_tasks : title_lock_acquired(key)
    \/ \E key \in DOMAIN title_tasks : title_provider_returns(key)

Spec == Init /\ [][Next]_vars

\* the orchestrator with the control loop's fair wait: tokio::select! of run_app picks
\* at random among its ready branches, so an event waiting in the channel is received
SpecLive == Init /\ [][Next]_vars /\ WF_vars(handle_inference_event)

\* the orchestrator with a user who also moves the message cursor
NextCursor ==
    \/ Next
    \/ handle_message_cursor_key

SpecCursor == Init /\ [][NextCursor]_vars

\* the default profiles of a store whose table chat_profile_tool holds a row for
\* the default profile or none; tools and models are numbered from 1 in their own
\* tables, and tool 2 is not model 2
ToolProfiles ==
    {[chat_id |-> 0, model_ids |-> <<1>>, tool_ids |-> ids] : ids \in {<<>>, <<2>>}}

InitTools ==
    /\ \E profile \in ToolProfiles : InitApp(profile)
    /\ ViewIdle

SpecTools == InitTools /\ [][Next]_vars

\* the orchestrator with provider clients whose call may panic
NextPanic ==
    \/ Next
    \/ \E key \in DOMAIN tasks : task_provider_panics(key)
    \/ \E key \in DOMAIN tasks : task_prereq_failed(key)

SpecPanic == Init /\ [][NextPanic]_vars

\* the orchestrator with a user who also edits the titles of chats
NextTitle ==
    \/ Next
    \/ open_title_edit_dialog
    \/ handle_title_edit_key

SpecTitle == Init /\ [][NextTitle]_vars

\* the process is running: run_app has not returned
Running == run_app_result = "running"

\* the orchestrator over a store whose writes may fail; nothing runs once run_app
\* has returned
NextStoreFailure ==
    \/ Running /\ create_new_chat
    \/ Running /\ navigate_chat_history
    \/ Running /\ submit_message
    \/ Running /\ submit_message_store_fails
    \/ Running /\ handle_inference_event
    \/ Running /\ handle_title_store_fails
    \/ Running /\ \E key \in DOMAIN tasks : task_prereq_resolved(key)
    \/ Running /\ \E key \in DOMAIN tasks : task_lock_acquired(key)
    \/ Running /\ \E key \in DOMAIN tasks : task_provider_returns(key)
    \/ Running /\ \E key \in DOMAIN tasks : task_db_write(key)
    \/ Running /\ \E key \in DOMAIN title_tasks : title_lock_acquired(key)
    \/ Running /\ \E key \in DOMAIN title_tasks : title_provider_returns(key)

SpecStoreFailure == Init /\ [][NextStoreFailure]_vars


(***************************************************************************)
(* The specification of the reconciler: App::new on a store with two       *)
(* providers, their models and one chat, then the passes, the world of the           *)
(* endpoints, and the control loop handling the events of the passes.      *)
(***************************************************************************)
CatalogProviders == {1, 2}

\* table model at startup: both providers list a model named m1
CatalogModels == <<Model(1, 1, "m1"), Model(2, 1, "m2"), Model(3, 2, "m1")>>

\* table provider at startup: provider 1 is refreshed by every pass or by none,
\* provider 2 when its models are older than the interval
CatalogProvider(p, requires, interval) ==
    IF p = 1 THEN Provider(1, requires, FALSE, 0, 0) ELSE Provider(2, FALSE, TRUE, 0, interval)

\* the chat the store holds at startup: one prompt, answered by a model of each provider
StoredMessages ==
    add_chat_message(
        add_chat_message(
            add_chat_message(<<>>, new_user_message(1, 1)),
            new_assistant_message(1, 1, "response", 1)),
        new_assistant_message(1, 3, "response", 1))

\* the default profile as App::new leaves it: the stored one without the models
\* whose provider has no API key
RetainedProfile(stored, available) ==
    [stored EXCEPT !.model_ids = SelectSeq(stored.model_ids, LAMBDA id : id \in available)]

\* App::new on a store that holds a chat: the history is read from the store and
\* its first entry is loaded
InitCatalogApp(keys, requires, interval, live) ==
    LET available == {id \in 1..Len(CatalogModels) : keys[CatalogModels[id].provider_id]}
        profile == RetainedProfile([chat_id |-> 0, model_ids |-> <<1, 3>>, tool_ids |-> <<>>],
                                   available)
        chat_profile == [chat_id |-> 1, model_ids |-> <<1, 3>>, tool_ids |-> <<>>]
    IN /\ db_chat = <<Chat(1, "user")>>
       /\ db_chat_model = set_chat_models(<<>>, 1, <<1, 3>>)
       /\ db_chat_message = StoredMessages
       /\ now_millis = 1
       /\ default_profile = profile
       /\ current_chat = Chat(1, "user")
       /\ current_model_idx = 0
       /\ current_chat_profile = chat_profile
       /\ chat_history = <<Chat(1, "user")>>
       /\ chat_history_index = 0
       /\ current_messages = BuildViews(StoredMessages, <<1, 3>>, EmptyMap)
       /\ current_message_index = ResetNavigation(chat_profile)
       /\ title_inference_in_progress_by_chat = {}
       /\ inference_in_progress_by_message_and_model = {}
       /\ inference_handles_by_chat_and_model = EmptyMap
       /\ db_model = CatalogModels
       /\ db_provider = [p \in CatalogProviders |-> 0]
       /\ state = IF profile.model_ids = <<>> THEN "ProviderDialog" ELSE "Normal"
       /\ providers = [p \in CatalogProviders |-> CatalogProvider(p, requires, interval)]
       /\ provider_api_keys_set = keys
       /\ providers_marked_down = {}
       /\ provider_clients = {p \in CatalogProviders : keys[p]}
       /\ all_models = [id \in 1..Len(CatalogModels) |-> CatalogModels[id]]
       /\ available_models = [id \in available |-> CatalogModels[id]]
       /\ refresh_tasks = <<>>
       /\ live_catalog = live
       /\ run_app_result = "running"
       /\ model_select_modal = NoModal
       /\ tasks = EmptyMap
       /\ title_tasks = EmptyMap
       /\ provider_mutex = [p \in CatalogProviders |-> Free]
       /\ inference_event_rx = <<>>

InitCatalog ==
    /\ \E keys \in [CatalogProviders -> BOOLEAN], requires \in BOOLEAN, interval \in {0, 1} :
          \E live \in [CatalogProviders -> LiveCatalogs] :
             InitCatalogApp(keys, requires, interval, live)
    /\ ViewIdle

\* App::handle_unavailable_models_error_key: any key closes the dialog
handle_unavailable_models_error_key ==
    /\ state = "UnavailableModelsError"
    /\ state' = "Normal"
    /\ UNCHANGED <<run_app_result, model_select_modal, store_vars, task_vars, view_vars, catalog_vars, catalog_app_vars,
                   default_profile, current_chat, current_model_idx, current_chat_profile,
                   chat_history, chat_history_index, current_messages,
                   current_message_index, title_inference_in_progress_by_chat,
                   inference_in_progress_by_message_and_model,
                   inference_handles_by_chat_and_model, provider_clients,
                   available_models>>

NextCatalog ==
    \/ refresh_models_spawn
    \/ \E n \in 1..Len(refresh_tasks) : refresh_skip_provider(n)
    \/ \E n \in 1..Len(refresh_tasks) : refresh_lock_acquired(n)
    \/ \E n \in 1..Len(refresh_tasks) : refresh_fetch_returns(n)
    \/ \E n \in 1..Len(refresh_tasks) : refresh_sync_returns(n)
    \/ \E n \in 1..Len(refresh_tasks) : refresh_send(n)
    \/ live_catalog_changes
    \/ handle_inference_event

SpecCatalog == InitCatalog /\ [][NextCatalog]_vars

\* the reconciler with a user who submits prompts; the inference tasks a submit
\* spawns are not scheduled here
NextCatalogSubmit ==
    \/ NextCatalog
    \/ submit_message
    \/ handle_unavailable_models_error_key

SpecCatalogSubmit == InitCatalog /\ [][NextCatalogSubmit]_vars

\* keys 'x' and 'd' in normal mode with an empty prompt and no search: a placeholder
\* chat leaves the history without a store access, a stored chat opens the
\* confirmation dialog; Vec::remove panics on a position past the end
handle_delete_key ==
    /\ state = "Normal"
    /\ chat_history # <<>>
    /\ IF current_chat.id = 0
       THEN IF chat_history_index < Len(chat_history)
            THEN LET history == SubSeq(chat_history, 1, chat_history_index)
                                \o SubSeq(chat_history, chat_history_index + 2,
                                          Len(chat_history))
                 IN /\ chat_history' = history
                    /\ load_selected_chat(history, chat_history_index)
                    /\ UNCHANGED <<state, run_app_result>>
            ELSE /\ run_app_result' = "Panic"
                 /\ UNCHANGED <<state, chat_history, current_chat, current_messages,
                                current_chat_profile, current_model_idx,
                                current_message_index>>
       ELSE /\ state' = "DeleteConfirmation"
            /\ UNCHANGED <<run_app_result, model_select_modal, chat_history, current_chat, current_messages,
                           current_chat_profile, current_model_idx, current_message_index>>
    /\ UNCHANGED <<model_select_modal, store_vars, task_vars, view_vars, catalog_vars,
                   catalog_app_vars, default_profile, chat_history_index,
                   title_inference_in_progress_by_chat,
                   inference_in_progress_by_message_and_model,
                   inference_handles_by_chat_and_model, provider_clients,
                   available_models>>

\* App::open_model_selection_dialog, keys Ctrl-Shift-m (DefaultModels) and Ctrl-m
\* (CurrentChatModels); the second returns at once when current_messages is not empty
open_model_selection_dialog(mode) ==
    /\ state = "Normal"
    /\ mode = "CurrentChatModels" => DOMAIN current_messages = {}
    /\ LET current_models == IF mode = "DefaultModels"
                              THEN default_profile.model_ids
                              ELSE current_chat_profile.model_ids
       IN model_select_modal' =
              [mode |-> mode,
               selection_index |-> 0,
               selection_states |-> [model_id \in Range(current_models) |-> TRUE],
               enabled_model_order |-> current_models,
               dialog_mode |-> "Normal",
               visual_start_index |-> <<>>,
               available_models |-> available_models]
    /\ state' = "ModelSelection"
    /\ UNCHANGED <<run_app_result, store_vars, task_vars, view_vars, catalog_vars,
                   catalog_app_vars, default_profile, current_chat, current_model_idx,
                   current_chat_profile, chat_history, chat_history_index, current_messages,
                   current_message_index, title_inference_in_progress_by_chat,
                   inference_in_progress_by_message_and_model,
                   inference_handles_by_chat_and_model, provider_clients,
                   available_models>>

\* ModelSelectModal::get_selected_model_ids after any keys of the dialog: the models
\* of enabled_model_order that are still selected, in that order.  Only a model the
\* dialog lists, an available one, can be toggled, and nothing adds to
\* enabled_model_order
ModalSelections(modal) ==
    LET enabled == Range(modal.enabled_model_order)
    IN {SelectSeq(modal.enabled_model_order, LAMBDA id : id \in selected) :
           selected \in {ids \in SUBSET enabled :
                            enabled \ DOMAIN modal.available_models \subseteq ids}}

\* App::apply_model_selection followed by the closing of the dialog, the arm
\* ModalResult::Apply of handle_model_selection_key.  The rows of the default
\* profile in the store are read by App::new only
apply_model_selection(selected_models) ==
    /\ state = "ModelSelection"
    /\ model_select_modal # NoModal
    /\ IF model_select_modal.mode = "DefaultModels"
       THEN /\ default_profile' = [default_profile EXCEPT !.model_ids = selected_models]
            /\ current_chat_profile' =
                   IF DOMAIN current_messages = {}
                   THEN [current_chat_profile EXCEPT !.model_ids = selected_models]
                   ELSE current_chat_profile
       ELSE /\ current_chat_profile' =
                   [current_chat_profile EXCEPT !.model_ids = selected_models]
            /\ UNCHANGED default_profile
    /\ model_select_modal' = NoModal
    /\ state' = "Normal"
    /\ UNCHANGED <<run_app_result, store_vars, task_vars, view_vars, catalog_vars,
                   catalog_app_vars, current_chat, current_model_idx, chat_history,
                   chat_history_index, current_messages, current_message_index,
                   title_inference_in_progress_by_chat,
                   inference_in_progress_by_message_and_model,
                   inference_handles_by_chat_and_model, provider_clients,
                   available_models>>

\* App::handle_model_selection_key, the keys of the dialog up to the Esc that
\* applies it taken as one step
handle_model_selection_key ==
    \E selected_models \in ModalSelections(model_select_modal) :
       apply_model_selection(selected_models)

(***************************************************************************)
(* The dialog key by key.  The search of the dialog and the numeric prefix *)
(* are left out: search_query stays empty and every count is one.          *)
(***************************************************************************)
\* the model names of the catalogues, in the order of String::cmp
ModelNameOrder == <<"m1", "m2", "m3">>

\* a.provider_id.cmp(&b.provider_id).then_with(|| a.model.cmp(&b.model)) is not Greater
ModelLessEq(a, b) ==
    LET rank(name) == CHOOSE i \in 1..Len(ModelNameOrder) : ModelNameOrder[i] = name
    IN \/ a.provider_id < b.provider_id
       \/ a.provider_id = b.provider_id /\ rank(a.model) <= rank(b.model)

\* *self.selection_states.get(model_id).unwrap_or(&false)
is_enabled(modal, model_id) ==
    model_id \in DOMAIN modal.selection_states /\ modal.selection_states[model_id]

\* ModelSelectModal::get_filtered_models with an empty search_query: the ids of the
\* rows of the dialog, the enabled models in their stored order and then the
\* disabled ones by provider and name
get_filtered_models(modal) ==
    LET available == DOMAIN modal.available_models
        enabled_models == SelectSeq(modal.enabled_model_order,
                                    LAMBDA id : id \in available /\ is_enabled(modal, id))
        disabled == {id \in available : ~is_enabled(modal, id)}
        disabled_models ==
            CHOOSE seq \in [1..Cardinality(disabled) -> disabled] :
                /\ Range(seq) = disabled
                /\ \A i \in 1..(Len(seq) - 1) :
                      ModelLessEq(modal.available_models[seq[i]],
                                  modal.available_models[seq[i + 1]])
    IN enabled_models \o disabled_models

\* ModelSelectModal::get_selected_model_ids
get_selected_model_ids(modal) ==
    SelectSeq(modal.enabled_model_order, LAMBDA model_id : is_enabled(modal, model_id))

\* the keys of the dialog in its normal and visual mode: 'l', 'h', ' ' and Enter
\* toggle, 'v' enters visual mode and leaves it, as Esc does in visual mode
ModalKeys == {"j", "k", "toggle", "v"}

\* the rows start..=end of the visual selection that exist; visual_start_index is
\* the empty sequence for None and <<i>> for Some(i)
VisualRange(modal, filtered_models) ==
    LET start_idx == modal.visual_start_index[1]
        start == IF start_idx < modal.selection_index THEN start_idx
                 ELSE modal.selection_index
        end == IF start_idx > modal.selection_index THEN start_idx
               ELSE modal.selection_index
    IN {filtered_models[i + 1] : i \in {i \in start..end : i < Len(filtered_models)}}

\* ModelSelectModal::handle_normal_mode, the arms that return ModalResult::Continue
ModelSelectModal_handle_normal_mode(modal, key) ==
    LET filtered_models == get_filtered_models(modal)
        model_count == Len(filtered_models)
    IN CASE key = "j" ->
              IF model_count > 0
              THEN [modal EXCEPT !.selection_index =
                       IF @ + 1 <= model_count - 1 THEN @ + 1 ELSE model_count - 1]
              ELSE modal
         [] key = "k" ->
              IF model_count > 0 /\ modal.selection_index > 0
              THEN [modal EXCEPT !.selection_index = @ - 1]
              ELSE modal
         [] key = "toggle" ->
              IF modal.selection_index < model_count
              THEN LET model_id == filtered_models[modal.selection_index + 1]
                   IN [modal EXCEPT !.selection_states =
                          MapInsert(@, model_id, ~is_enabled(modal, model_id))]
              ELSE modal
         [] key = "v" ->
              [modal EXCEPT !.dialog_mode = "Visual",
                            !.visual_start_index = <<modal.selection_index>>]

\* ModelSelectModal::handle_visual_mode
ModelSelectModal_handle_visual_mode(modal, key) ==
    LET filtered_models == get_filtered_models(modal)
        model_count == Len(filtered_models)
    IN CASE key = "j" ->
              IF model_count > 0
              THEN [modal EXCEPT !.selection_index =
                       IF @ + 1 <= model_count - 1 THEN @ + 1 ELSE model_count - 1]
              ELSE modal
         [] key = "k" ->
              IF model_count > 0 /\ modal.selection_index > 0
              THEN [modal EXCEPT !.selection_index = @ - 1]
              ELSE modal
         [] key = "toggle" ->
              IF modal.visual_start_index # <<>>
              THEN LET model_ids_to_toggle == VisualRange(modal, filtered_models)
                       all_enabled == \A model_id \in model_ids_to_toggle :
                                         is_enabled(modal, model_id)
                       new_state == ~all_enabled
                   IN [modal EXCEPT !.selection_states =
                          [model_id \in DOMAIN @ \cup model_ids_to_toggle |->
                              IF model_id \in model_ids_to_toggle THEN new_state
                              ELSE @[model_id]]]
              ELSE modal
         [] key = "v" ->
              [modal EXCEPT !.dialog_mode = "Normal", !.visual_start_index = <<>>]

\* App::handle_model_selection_key on a key that leaves the dialog open
handle_model_selection_key_Continue ==
    /\ state = "ModelSelection"
    /\ model_select_modal # NoModal
    /\ \E key \in ModalKeys :
          model_select_modal' =
              IF model_select_modal.dialog_mode = "Visual"
              THEN ModelSelectModal_handle_visual_mode(model_select_modal, key)
              ELSE ModelSelectModal_handle_normal_mode(model_select_modal, key)
    /\ UNCHANGED <<run_app_result, store_vars, app_vars, task_vars, view_vars,
                   catalog_vars>>

\* App::handle_model_selection_key on Esc in the normal mode of the dialog:
\* ModalResult::Apply(get_selected_model_ids())
handle_model_selection_key_Apply ==
    /\ model_select_modal.dialog_mode = "Normal"
    /\ apply_model_selection(get_selected_model_ids(model_select_modal))

\* Enter with a profile that has no model, had it reached submit_message: the chat
\* and the prompt are stored, then the lookup of the model for the title fails
handle_normal_mode_key_out_of_bounds_Submits ==
    /\ state = "Normal"
    /\ current_chat_profile.model_ids = <<>>
    /\ current_chat.id = 0 => chat_history_index < Len(chat_history)
    /\ LET is_new == current_chat.id = 0
           chat_id == IF is_new THEN Len(db_chat) + 1 ELSE current_chat.id
           dt == now_millis + 1
       IN /\ now_millis' = dt
          /\ db_chat' = IF is_new THEN Append(db_chat, Chat(chat_id, NoText)) ELSE db_chat
          /\ db_chat_model' = IF is_new
                              THEN set_chat_tools(db_chat_model, chat_id,
                                                  current_chat_profile.tool_ids)
                              ELSE db_chat_model
          /\ current_chat' = [current_chat EXCEPT !.id = chat_id]
          /\ chat_history' = IF is_new
                             THEN [chat_history EXCEPT ![chat_history_index + 1].id = chat_id]
                             ELSE chat_history
          /\ db_chat_message' = add_chat_message(db_chat_message,
                                                 new_user_message(chat_id, dt))
    /\ run_app_result' = "Err"
    /\ UNCHANGED <<model_select_modal, db_model, db_provider, task_vars, view_vars,
                   catalog_vars, catalog_app_vars, state, default_profile, current_model_idx,
                   current_chat_profile, chat_history_index, current_messages,
                   current_message_index, title_inference_in_progress_by_chat,
                   inference_in_progress_by_message_and_model,
                   inference_handles_by_chat_and_model, provider_clients, available_models>>

\* handle_normal_mode_key, a key that is not handled before the lookup of
\* chat_item_selections (Enter with a prompt is one): the expression
\* model_ids[current_model_idx] panics when the index is not one of the list, and
\* the panic ends run_app before the key is matched
handle_normal_mode_key_out_of_bounds ==
    /\ state = "Normal"
    /\ current_model_idx >= Len(current_chat_profile.model_ids)
    /\ run_app_result' = "Panic"
    /\ UNCHANGED <<model_select_modal, store_vars, app_vars, task_vars, view_vars,
                   catalog_vars>>

\* App::handle_provider_dialog_key: Esc and 'q' close the dialog
handle_provider_dialog_key ==
    /\ state = "ProviderDialog"
    /\ state' = "Normal"
    /\ UNCHANGED <<run_app_result, model_select_modal, store_vars, task_vars, view_vars,
                   catalog_vars, catalog_app_vars, default_profile, current_chat,
                   current_model_idx, current_chat_profile, chat_history, chat_history_index,
                   current_messages, current_message_index,
                   title_inference_in_progress_by_chat,
                   inference_in_progress_by_message_and_model,
                   inference_handles_by_chat_and_model, provider_clients,
                   available_models>>

\* the orchestrator on an empty store with a user who also drops placeholder chats;
\* nothing runs once run_app has returned
NextDiscard ==
    \/ Running /\ create_new_chat
    \/ Running /\ navigate_chat_history
    \/ Running /\ submit_message
    \/ Running /\ handle_inference_event
    \/ Running /\ \E key \in DOMAIN tasks : task_prereq_resolved(key)
    \/ Running /\ \E key \in DOMAIN tasks : task_lock_acquired(key)
    \/ Running /\ \E key \in DOMAIN tasks : task_provider_returns(key)
    \/ Running /\ \E key \in DOMAIN tasks : task_db_write(key)
    \/ Running /\ \E key \in DOMAIN title_tasks : title_lock_acquired(key)
    \/ Running /\ \E key \in DOMAIN title_tasks : title_provider_returns(key)
    \/ Running /\ handle_delete_key
    \/ Running /\ submit_message_history_out_of_bounds

SpecDiscard == Init /\ [][NextDiscard]_vars

\* a user who creates, selects and drops chats and submits prompts, on a store that
\* holds a chat; an open confirmation dialog is left open
NextChats ==
    \/ Running /\ create_new_chat
    \/ Running /\ navigate_chat_history
    \/ Running /\ submit_message
    \/ Running /\ handle_unavailable_models_error_key
    \/ Running /\ handle_delete_key
    \/ Running /\ handle_provider_dialog_key
    \/ Running /\ handle_normal_mode_key_out_of_bounds
    \/ Running /\ handle_inference_event
    \/ Running /\ \E key \in DOMAIN tasks : task_prereq_resolved(key)
    \/ Running /\ \E key \in DOMAIN tasks : task_lock_acquired(key)
    \/ Running /\ \E key \in DOMAIN tasks : task_provider_returns(key)
    \/ Running /\ \E key \in DOMAIN tasks : task_db_write(key)
    \/ Running /\ \E key \in DOMAIN title_tasks : title_lock_acquired(key)
    \/ Running /\ \E key \in DOMAIN title_tasks : title_provider_returns(key)

\* App::new on the store that holds a chat, with providers whose catalog is never
\* refreshed
InitChats ==
    /\ \E keys \in [CatalogProviders -> BOOLEAN] :
          InitCatalogApp(keys, FALSE, 0, [p \in CatalogProviders |-> Down])
    /\ ViewIdle

SpecChats == InitChats /\ [][NextChats]_vars


\* App::new on the store a run leaves behind after the first prompt of a chat: chat
\* 1 holds the prompt and is bound to `bound`, the models of the profile the prompt
\* was submitted with, of which there is at least one
InitSelectApp(profile, bound) ==
    LET chat_profile == [chat_id |-> 1, model_ids |-> bound, tool_ids |-> <<>>]
    IN /\ db_chat = <<Chat(1, NoText)>>
       /\ db_chat_model = set_chat_models(<<>>, 1, bound)
       /\ db_chat_message = add_chat_message(<<>>, new_user_message(1, 1))
       /\ now_millis = 1
       /\ default_profile = profile
       /\ current_chat = Chat(1, NoText)
       /\ current_model_idx = 0
       /\ current_chat_profile = chat_profile
       /\ chat_history = <<Chat(1, NoText)>>
       /\ chat_history_index = 0
       /\ current_messages = BuildViews(db_chat_message, bound, EmptyMap)
       /\ current_message_index = ResetNavigation(chat_profile)
       /\ title_inference_in_progress_by_chat = {}
       /\ inference_in_progress_by_message_and_model = {}
       /\ inference_handles_by_chat_and_model = EmptyMap
       /\ db_model = <<Model(1, 1, "m1"), Model(2, 1, "m2")>>
       /\ db_provider = [p \in Providers |-> 0]
       /\ state = "Normal"
       /\ providers = [p \in Providers |-> Provider(p, FALSE, FALSE, 0, 0)]
       /\ provider_api_keys_set = [p \in Providers |-> TRUE]
       /\ providers_marked_down = {}
       /\ provider_clients = Providers
       /\ all_models = [m \in Models |-> db_model[m]]
       /\ available_models = [m \in Models |-> db_model[m]]
       /\ refresh_tasks = <<>>
       /\ live_catalog = [p \in Providers |-> Up({"m1", "m2"})]
       /\ run_app_result = "running"
       /\ model_select_modal = NoModal
       /\ tasks = EmptyMap
       /\ title_tasks = EmptyMap
       /\ provider_mutex = [p \in Providers |-> Free]
       /\ inference_event_rx = <<>>

InitSelect ==
    /\ \E profile \in DefaultProfiles, bound \in {<<1>>, <<1, 2>>} :
          InitSelectApp(profile, bound)
    /\ ViewIdle

\* a user who selects models in the two modes of the dialog, creates, selects and
\* drops chats and submits prompts; the inference tasks a submit spawns are not
\* scheduled here, so that table chat_message holds prompts only
NextSelect ==
    \/ Running /\ \E mode \in {"DefaultModels", "CurrentChatModels"} :
                     open_model_selection_dialog(mode)
    \/ Running /\ handle_model_selection_key
    \/ Running /\ create_new_chat
    \/ Running /\ navigate_chat_history
    \/ Running /\ Len(db_chat_message) < MaxPrompts /\ submit_message
    \/ Running /\ handle_normal_mode_key_out_of_bounds
    \/ Running /\ handle_delete_key

SpecSelect == InitSelect /\ [][NextSelect]_vars

\* the keys of normal mode that change the model shown: '0', '$', '*', 'h' and 'l'
\* with an empty prompt, '{' and '}' with any prompt
ModelSwitchKeys == {"0", "$", "*", "h", "l", "{", "}"}

\* '*': the first of the models after the one shown, cyclically, that has no
\* unfinished handle for the current chat; the index stays when there is none
NextIdleModelIdx(start_idx) ==
    LET model_ids == current_chat_profile.model_ids
        num_models == Len(model_ids)
        test_idx(i) == (start_idx + i) % num_models
        has_pending(idx) ==
            LET key == <<current_chat.id, model_ids[idx + 1]>>
            IN /\ key \in DOMAIN inference_handles_by_chat_and_model
               /\ tasks[inference_handles_by_chat_and_model[key]].pc \notin {"done", "panicked"}
        idle == {i \in 1..num_models : ~has_pending(test_idx(i))}
    IN IF idle = {} THEN start_idx
       ELSE test_idx(CHOOSE i \in idle : \A j \in idle : i <= j)

\* the index after a key of ModelSwitchKeys, the list left as it is
ModelIdxAfterKey(key, idx, num_models) ==
    CASE key = "0" -> IF num_models > 0 THEN 0 ELSE idx
      [] key = "$" -> IF num_models > 0 THEN num_models - 1 ELSE idx
      [] key = "*" -> IF num_models > 0 THEN NextIdleModelIdx(idx) ELSE idx
      [] key = "h" -> IF idx > 0 THEN idx - 1 ELSE idx
      [] key = "l" -> IF num_models > 0
                      THEN (IF idx + 1 <= num_models - 1 THEN idx + 1 ELSE num_models - 1)
                      ELSE idx
      [] key = "{" -> IF idx > 0 THEN idx - 1
                      ELSE IF num_models > 0 THEN num_models - 1 ELSE idx
      [] key = "}" -> IF num_models > 0 THEN (idx + 1) % num_models ELSE idx

\* handle_normal_mode_key on a key of ModelSwitchKeys.  '{' and '}' are matched
\* after the lookup model_ids[current_model_idx], so they are keys of
\* handle_normal_mode_key_out_of_bounds when the index is not one of the list
handle_model_switch_key ==
    /\ state = "Normal"
    /\ \E key \in ModelSwitchKeys :
          /\ key \in {"{", "}"} => current_model_idx < Len(current_chat_profile.model_ids)
          /\ current_model_idx' = ModelIdxAfterKey(key, current_model_idx,
                                                   Len(current_chat_profile.model_ids))
    /\ UNCHANGED <<run_app_result, model_select_modal, store_vars, task_vars, view_vars,
                   catalog_vars, catalog_app_vars, state, default_profile, current_chat,
                   current_chat_profile, chat_history, chat_history_index, current_messages,
                   current_message_index, title_inference_in_progress_by_chat,
                   inference_in_progress_by_message_and_model,
                   inference_handles_by_chat_and_model, provider_clients, available_models>>

\* the user of NextSelect who also changes the model shown
NextModelKeys ==
    \/ Running /\ \E mode \in {"DefaultModels", "CurrentChatModels"} :
                     open_model_selection_dialog(mode)
    \/ Running /\ handle_model_selection_key
    \/ Running /\ create_new_chat
    \/ Running /\ navigate_chat_history
    \/ Running /\ Len(db_chat_message) < MaxPrompts /\ submit_message
    \/ Running /\ handle_normal_mode_key_out_of_bounds
    \/ Running /\ handle_delete_key
    \/ Running /\ handle_model_switch_key

SpecModelKeys == InitSelect /\ [][NextModelKeys]_vars

\* a user who opens the dialog in either mode, on a stored chat or a new one, and
\* presses its keys one by one
NextModal ==
    \/ Running /\ \E mode \in {"DefaultModels", "CurrentChatModels"} :
                     open_model_selection_dialog(mode)
    \/ Running /\ handle_model_selection_key_Continue
    \/ Running /\ handle_model_selection_key_Apply
    \/ Running /\ create_new_chat
    \/ Running /\ navigate_chat_history

SpecModal == InitSelect /\ [][NextModal]_vars

(***************************************************************************)
(* The specification of the view builder alone: a message log and a list   *)
(* of bound models are drawn, and the loop of load_selected_chat is run on *)
(* them.  Model 3 stands for a model that produced messages of the log and *)
(* is not bound to the chat.                                               *)
(***************************************************************************)
LogModels == {NoId, 1, 2, 3}

\* the message at position i of a log, written by the model `by` (NoId: the user)
LogMessage(i, by) ==
    IF by = NoId
    THEN [new_user_message(1, i) EXCEPT !.id = i]
    ELSE [new_assistant_message(1, by, "response", i) EXCEPT !.id = i]

Logs ==
    UNION {{[i \in 1..n |-> LogMessage(i, by[i])] : by \in [1..n -> LogModels]} :
           n \in 0..MaxLogLen}

BoundLists == {<<>>, <<1>>, <<2>>, <<1, 2>>, <<2, 1>>}

InitView ==
    /\ InitApp([chat_id |-> 0, model_ids |-> <<1, 2>>, tool_ids |-> <<>>])
    /\ vb_all_chat_messages \in Logs
    /\ vb_model_ids \in BoundLists
    /\ vb_views = EmptyMap
    /\ vb_built = FALSE

\* lines 1224-1243 of load_selected_chat on the drawn log and list
build_views ==
    /\ ~vb_built
    /\ vb_views' = BuildViews(vb_all_chat_messages, vb_model_ids, EmptyMap)
    /\ vb_built' = TRUE
    /\ UNCHANGED <<run_app_result, model_select_modal, store_vars, app_vars, task_vars, catalog_vars, vb_all_chat_messages, vb_model_ids>>

NextView == build_views

SpecView == InitView /\ [][NextView]_vars


(***************************************************************************)
(* Vocabulary of the properties.                                           *)
(***************************************************************************)
IsAssistantRow(row, chat_id, model_id) ==
    row.chat_role = "Assistant" /\ row.chat_id = chat_id /\ row.model_id = model_id

\* the rows of chat_message that answer the prompt of timestamp dt for a model
AnswerRows(chat_id, model_id, dt) ==
    {i \in 1..Len(db_chat_message) :
        IsAssistantRow(db_chat_message[i], chat_id, model_id) /\ db_chat_message[i].dt = dt}

\* the task has sent its completion event
EventSent(key) == tasks[key].pc \in {"write", "done"}

\* two links of one (chat, model) chain, k1 submitted before k2
Successive(k1, k2) ==
    /\ tasks[k1].chat_id = tasks[k2].chat_id
    /\ tasks[k1].model_id = tasks[k2].model_id
    /\ k1[1] < k2[1]

HasAssistantTurn(conversation) ==
    \E i \in 1..Len(conversation) : conversation[i].chat_role = "Assistant"

ErrorOnly(message) == message.content = NoText /\ message.error # NoText
ContentOnly(message) == message.content # NoText /\ message.error = NoText

(***************************************************************************)
(* C1.  The assistant messages of one (chat, model) are appended to the    *)
(* store in the order their prompts were submitted: a later link is never  *)
(* written before an earlier one, and the rows of the pair appear in the   *)
(* table in increasing prompt timestamp.                                   *)
(***************************************************************************)
C1_StoreOrderIsSubmissionOrder ==
    /\ \A k1, k2 \in DOMAIN tasks :
          (Successive(k1, k2) /\ tasks[k2].pc = "done") => tasks[k1].pc = "done"
    /\ \A i, j \in 1..Len(db_chat_message) :
          (/\ i < j
           /\ db_chat_message[i].chat_role = "Assistant"
           /\ IsAssistantRow(db_chat_message[j], db_chat_message[i].chat_id,
                             db_chat_message[i].model_id))
          => db_chat_message[i].dt < db_chat_message[j].dt

\* two links of one chain are both written, the second one submitted on a view
\* that held no answer yet
C1_Witness ==
    \E k1, k2 \in DOMAIN tasks :
        /\ Successive(k1, k2)
        /\ tasks[k1].pc = "done" /\ tasks[k2].pc = "done"
        /\ ~HasAssistantTurn(tasks[k2].conversation)
        /\ AnswerRows(tasks[k1].chat_id, tasks[k1].model_id, tasks[k1].user_message_dt) # {}
        /\ AnswerRows(tasks[k2].chat_id, tasks[k2].model_id, tasks[k2].user_message_dt) # {}

(***************************************************************************)
(* C2.  Every generation-complete event in the channel carries a message   *)
(* that the store already contains, and so does every assistant turn of an *)
(* in-memory view.                                                         *)
(***************************************************************************)
C2_StoreWrittenBeforeEvent ==
    /\ \A i \in 1..Len(inference_event_rx) :
          inference_event_rx[i].kind = "InferenceComplete" =>
              AnswerRows(inference_event_rx[i].chat_id, inference_event_rx[i].model_id,
                         inference_event_rx[i].result.dt) # {}
    /\ \A m \in DOMAIN current_messages : \A i \in 1..Len(current_messages[m]) :
          current_messages[m][i].chat_role = "Assistant" =>
              AnswerRows(current_messages[m][i].chat_id, current_messages[m][i].model_id,
                         current_messages[m][i].dt) # {}

(***************************************************************************)
(* C3.  For one (chat, model) the completion events are sent in submission *)
(* order: a link has sent its event only if every earlier link of the pair *)
(* has, and the events of a pair lie in the channel in submission order.   *)
(***************************************************************************)
C3_EventsInSubmissionOrder ==
    /\ \A k1, k2 \in DOMAIN tasks :
          (Successive(k1, k2) /\ EventSent(k2)) => EventSent(k1)
    /\ \A i, j \in 1..Len(inference_event_rx) :
          (/\ i < j
           /\ inference_event_rx[i].kind = "InferenceComplete"
           /\ inference_event_rx[j].kind = "InferenceComplete"
           /\ inference_event_rx[i].chat_id = inference_event_rx[j].chat_id
           /\ inference_event_rx[i].model_id = inference_event_rx[j].model_id)
          => inference_event_rx[i].origin_message_id < inference_event_rx[j].origin_message_id

\* both events of a chain are in the channel, the second link having been
\* submitted on a view without any answer
C3_Witness ==
    \E i, j \in 1..Len(inference_event_rx) :
        /\ i < j
        /\ inference_event_rx[i].kind = "InferenceComplete"
        /\ inference_event_rx[j].kind = "InferenceComplete"
        /\ inference_event_rx[i].chat_id = inference_event_rx[j].chat_id
        /\ inference_event_rx[i].model_id = inference_event_rx[j].model_id
        /\ ~HasAssistantTurn(
              tasks[<<inference_event_rx[j].origin_message_id,
                      inference_event_rx[j].model_id>>].conversation)

C5_ChainedInput ==
    \A key \in DOMAIN tasks :
        (tasks[key].prereq_handle # NoHandle /\ tasks[key].pc \in {"run", "write", "done"}) =>
            LET prior == tasks[tasks[key].prereq_handle] IN
            /\ prior.pc = "done"
            /\ Last(prior.current_conversation) = prior.new_assistant_message
            /\ tasks[key].generation_input =
                   Append(prior.current_conversation, Last(tasks[key].conversation))
            /\ Last(tasks[key].conversation).id = tasks[key].user_message_id

\* a chained link has called the provider and its input differs from the view
\* it was submitted with
C5_Witness ==
    \E key \in DOMAIN tasks :
        /\ tasks[key].prereq_handle # NoHandle
        /\ tasks[key].pc \in {"run", "write", "done"}
        /\ ~HasAssistantTurn(tasks[key].conversation)
        /\ HasAssistantTurn(tasks[key].generation_input)

(***************************************************************************)
(* C6.  Between two handlers of the control loop the handle table holds,   *)
(* for every (chat, model) a task was spawned for, the handle of the most  *)
(* recently spawned task of the pair; in particular it does whenever an    *)
(* event of the pair waits in the channel.                                 *)
(***************************************************************************)
C6_NewestHandleRegistered ==
    \A key \in DOMAIN tasks :
        LET pair == <<tasks[key].chat_id, tasks[key].model_id>>
            newest == CHOOSE k \in DOMAIN tasks :
                          /\ <<tasks[k].chat_id, tasks[k].model_id>> = pair
                          /\ \A k2 \in DOMAIN tasks :
                                <<tasks[k2].chat_id, tasks[k2].model_id>> = pair => k2[1] <= k[1]
        IN /\ pair \in DOMAIN inference_handles_by_chat_and_model
           /\ inference_handles_by_chat_and_model[pair] = newest

\* the completion event of the newest link of a pair is waiting in the channel
C6_Witness ==
    \E i \in 1..Len(inference_event_rx) :
        /\ inference_event_rx[i].kind = "InferenceComplete"
        /\ <<inference_event_rx[i].chat_id, inference_event_rx[i].model_id>>
               \in DOMAIN inference_handles_by_chat_and_model
        /\ inference_handles_by_chat_and_model[
               <<inference_event_rx[i].chat_id, inference_event_rx[i].model_id>>]
             = <<inference_event_rx[i].origin_message_id, inference_event_rx[i].model_id>>

(***************************************************************************)
(* C7.  A task that has written left exactly one row for its prompt and    *)
(* model, error-only when its provider call failed and content-only when   *)
(* it succeeded; and every generation-complete event handled for the       *)
(* current chat puts its message immediately after the originating user    *)
(* message in the view of its own model and changes no other view.         *)
(***************************************************************************)
C7_RowMatchesOutcome ==
    \A key \in DOMAIN tasks :
        tasks[key].pc = "done" =>
            LET rows == AnswerRows(tasks[key].chat_id, tasks[key].model_id,
                                   tasks[key].user_message_dt)
            IN /\ Cardinality(rows) = 1
               /\ \A i \in rows :
                     /\ tasks[key].result = "Err" => ErrorOnly(db_chat_message[i])
                     /\ tasks[key].result = "Ok" => ContentOnly(db_chat_message[i])

C7_InsertedAfterOrigin ==
    (/\ inference_event_rx # <<>>
     /\ inference_event_rx' = Tail(inference_event_rx)
     /\ Head(inference_event_rx).kind = "InferenceComplete"
     /\ Head(inference_event_rx).chat_id = current_chat.id)
    => LET event == Head(inference_event_rx)
           view == current_messages'[event.model_id]
           at == PositionById(view, event.origin_message_id)
       IN /\ at >= 0
          /\ at + 2 <= Len(view)
          /\ view[at + 2] = event.result
          /\ event.result.model_id = event.model_id
          /\ ErrorOnly(event.result) <=>
                 tasks[<<event.origin_message_id, event.model_id>>].result = "Err"
          /\ \A m \in (DOMAIN current_messages) \ {event.model_id} :
                 current_messages'[m] = current_messages[m]

C8_FanOutIndependent ==
    \A kb \in DOMAIN tasks :
        tasks[kb].pc = "lock" =>
            ~ \E ka \in DOMAIN tasks :
                 /\ tasks[ka].chat_id = tasks[kb].chat_id
                 /\ tasks[ka].model_id # tasks[kb].model_id
                 /\ tasks[ka].pc = "run"
                 /\ provider_mutex[ProviderOf(tasks[kb].model_id)] = <<"inference", ka>>

(***************************************************************************)
(* C9.  The views built from a log hold, for each bound model and in the   *)
(* order of the log, exactly the user messages and the assistant messages  *)
(* of that model; an assistant message of a model that is not bound is in  *)
(* no view.                                                                *)
(***************************************************************************)
C9_ViewsPartitionTheLog ==
    vb_built =>
        /\ DOMAIN vb_views = Range(vb_model_ids)
        /\ \A m \in Range(vb_model_ids) :
              LET InView(message) ==
                      \/ message.chat_role = "User"
                      \/ message.chat_role = "Assistant" /\ message.model_id = m
              IN vb_views[m] = SelectSeq(vb_all_chat_messages, InView)

\* views built for two bound models from a log with a user message, two successive
\* messages of a bound model and a message of a model that is not bound
C9_Witness ==
    /\ vb_built
    /\ Len(vb_model_ids) = 2
    /\ \E i \in 1..Len(vb_all_chat_messages) : vb_all_chat_messages[i].model_id = NoId
    /\ \E i \in 1..Len(vb_all_chat_messages) : vb_all_chat_messages[i].model_id = 3
    /\ \E i \in 1..(Len(vb_all_chat_messages) - 1) :
          /\ vb_all_chat_messages[i].model_id = vb_model_ids[2]
          /\ vb_all_chat_messages[i + 1].model_id = vb_model_ids[2]

(***************************************************************************)
(* C11.  When a generation-complete event of the current chat is handled,  *)
(* the view of its model becomes the old view with the event's message put *)
(* directly behind the message whose identity is the event's origin,       *)
(* wherever earlier completions have moved that message to; when no        *)
(* message of the view has that identity the message goes to the end.      *)
(***************************************************************************)
C11_InsertedBehindOriginByIdentity ==
    (/\ inference_event_rx # <<>>
     /\ inference_event_rx' = Tail(inference_event_rx)
     /\ Head(inference_event_rx).kind = "InferenceComplete"
     /\ Head(inference_event_rx).chat_id = current_chat.id)
    => LET event == Head(inference_event_rx)
           before == IF event.model_id \in DOMAIN current_messages
                     THEN current_messages[event.model_id] ELSE <<>>
           after == current_messages'[event.model_id]
           origins == {i \in 1..Len(before) : before[i].id = event.origin_message_id}
       IN /\ Len(after) = Len(before) + 1
          /\ IF origins = {}
             THEN after = Append(before, event.result)
             ELSE \E i \in origins :
                     /\ \A j \in origins : i <= j
                     /\ after = SubSeq(before, 1, i) \o <<event.result>>
                                    \o SubSeq(before, i + 1, Len(before))

\* C11: every step of the control loop that handles such an event inserts in this way
C11_InsertAfterOrigin == [][C11_InsertedBehindOriginByIdentity]_vars

\* a view holds two prompts and their answers, the second prompt submitted before
\* the first answer was inserted: the second origin had moved from index 1 to 2
C11_Witness ==
    \E m \in DOMAIN current_messages :
        /\ Len(current_messages[m]) = 4
        /\ current_messages[m][1].chat_role = "User"
        /\ current_messages[m][2].chat_role = "Assistant"
        /\ current_messages[m][3].chat_role = "User"
        /\ current_messages[m][4].chat_role = "Assistant"
        /\ <<current_messages[m][3].id, m>> \in DOMAIN tasks
        /\ ~HasAssistantTurn(tasks[<<current_messages[m][3].id, m>>].conversation)
        /\ inference_event_rx = <<>>

(***************************************************************************)
(* C12.  Whenever no generation of the current chat is in flight and the   *)
(* channel is empty, the view of every bound model of the current chat is  *)
(* the view the builder makes from the store's log of that chat (the       *)
(* store-assigned identity of a message, which an event cannot carry, left *)
(* aside).                                                                 *)
(***************************************************************************)
SameTurn(a, b) ==
    /\ a.dt = b.dt /\ a.chat_id = b.chat_id /\ a.model_id = b.model_id
    /\ a.chat_role = b.chat_role /\ a.content = b.content /\ a.error = b.error

SameTurns(v, w) == Len(v) = Len(w) /\ \A i \in 1..Len(v) : SameTurn(v[i], w[i])

C12_CacheConvergesToStore ==
    (/\ current_chat.id # 0
     /\ inference_event_rx = <<>>
     /\ \A key \in DOMAIN tasks :
           tasks[key].chat_id = current_chat.id => tasks[key].pc = "done")
    => LET model_ids == get_chat_models_ids(current_chat.id)
           built == BuildViews(get_chat_messages(current_chat.id), model_ids, EmptyMap)
       IN \A m \in Range(model_ids) :
             /\ m \in DOMAIN current_messages
             /\ SameTurns(current_messages[m], built[m])

(***************************************************************************)
(* C13.  Handling a title-complete event never replaces a title the user   *)
(* has set, in the store, in the history entry of the chat or in the       *)
(* current chat when it is that chat; the store's title of the chat        *)
(* changes in such a step only if it was unset.                            *)
(***************************************************************************)
StoredTitle(table, chat_id) ==
    LET rows == {i \in 1..Len(table) : table[i].id = chat_id}
    IN IF rows = {} THEN NoText ELSE table[CHOOSE i \in rows : TRUE].title

C13_TitleEventKeepsUserTitle ==
    (/\ inference_event_rx # <<>>
     /\ inference_event_rx' = Tail(inference_event_rx)
     /\ Head(inference_event_rx).kind = "TitleInferenceComplete")
    => LET chat_id == Head(inference_event_rx).chat_id IN
       /\ StoredTitle(db_chat, chat_id) # NoText
             => StoredTitle(db_chat', chat_id) = StoredTitle(db_chat, chat_id)
       /\ \A i \in 1..Len(chat_history) :
             (chat_history[i].id = chat_id /\ chat_history[i].title # NoText)
                 => chat_history'[i] = chat_history[i]
       /\ (current_chat.id = chat_id /\ current_chat.title # NoText)
             => current_chat' = current_chat

KnownModels(task, provider_id) ==
    {id \in DOMAIN task.all_models : task.all_models[id].provider_id = provider_id}

KnownNames(task, provider_id) ==
    {task.all_models[id].model : id \in KnownModels(task, provider_id)}

\* C14: for every provider whose fetch succeeded in a pass, to_insert is exactly
\* the fetched names that none of that provider's known models has, and to_remove is
\* exactly the ids of that provider's known models whose name was not fetched; no
\* model of another provider is in either set.
C14_CatalogDiff ==
    \A n \in 1..Len(refresh_tasks) : \A p \in DOMAIN refresh_tasks[n].diff :
        LET task == refresh_tasks[n]
        IN /\ task.fetched[p].ok
           /\ task.diff[p].to_insert =
                  task.fetched[p].models \ KnownNames(task, p)
           /\ task.diff[p].to_remove =
                  {id \in KnownModels(task, p) :
                      task.all_models[id].model \notin task.fetched[p].models}
           /\ \A id \in task.diff[p].to_remove : task.all_models[id].provider_id = p

\* a pass computed an insertion for a provider p, and for another provider q it
\* fetched a catalog that has one of p's known names and lacks another: nothing of
\* p is in q's to_remove
C14_Witness ==
    \E n \in 1..Len(refresh_tasks) : \E p \in DOMAIN refresh_tasks[n].diff :
        LET task == refresh_tasks[n]
        IN /\ task.diff[p].to_insert # {}
           /\ \E q \in DOMAIN refresh_tasks[n].diff :
                 /\ q # p
                 /\ KnownNames(task, p) \ task.fetched[q].models # {}
                 /\ KnownNames(task, p) \cap task.fetched[q].models # {}
                 /\ task.diff[q].to_remove = {}

\* pass n and the pass after it fetched the same catalog from provider p, and the
\* event of pass n was applied before the later pass started
SameCatalogTwice(n, p) ==
    /\ n + 1 <= Len(refresh_tasks)
    /\ p \in DOMAIN refresh_tasks[n].diff
    /\ p \in DOMAIN refresh_tasks[n + 1].diff
    /\ refresh_tasks[n].fetched[p] = refresh_tasks[n + 1].fetched[p]

EmptyDiff(diff) == diff.to_insert = {} /\ diff.to_remove = {}

EventApplied(n) ==
    /\ n = Len(refresh_tasks)
    /\ refresh_tasks[n].pc = "done"
    /\ refresh_tasks'[n].pc = "applied"

\* the fetch of provider p fails in this step of pass n
FetchFails(n, p) ==
    /\ refresh_tasks[n].pc = "fetch"
    /\ ThisProvider(refresh_tasks[n]) = p
    /\ ~refresh_tasks'[n].fetched[p].ok

\* the rows of table chat_message that reference a model of provider p
MessagesOf(table, p) ==
    {i \in 1..Len(table) : table[i].model_id # NoId /\ ProviderOf(table[i].model_id) = p}

C16_FetchFailure ==
    \A n \in 1..Len(refresh_tasks) : \A p \in CatalogProviders :
        /\ FetchFails(n, p) => UNCHANGED store_vars
        /\ EventApplied(n) /\ p \in refresh_tasks[n].providers_to_remove =>
              /\ KnownModels(refresh_tasks[n], p) \cap DOMAIN available_models' = {}
              /\ p \notin provider_clients'
              /\ p \notin DOMAIN refresh_tasks[n].synced
              /\ \A id \in KnownModels(refresh_tasks[n], p) :
                    /\ id \in DOMAIN all_models'
                    /\ id \in DOMAIN all_models
                    /\ db_model'[id] = refresh_tasks[n].all_models[id]
              /\ db_chat_message' = db_chat_message
              /\ MessagesOf(db_chat_message', p) = MessagesOf(StoredMessages, p)

\* C16: when the fetch of a provider fails during a pass, no store operation is
\* issued for the provider, and once the event of the pass is applied none of the
\* provider's known models is selectable and its client is removed, while the models
\* stay in table model and in all_models and no message is deleted.
C16_FetchFailureMarksDown == [][C16_FetchFailure]_vars

\* the event of a pass in which a selectable provider with known models and stored
\* messages failed has been applied
C16_Witness ==
    \E n \in 1..Len(refresh_tasks) : \E p \in refresh_tasks[n].providers_to_remove :
        /\ refresh_tasks[n].pc = "applied"
        /\ KnownModels(refresh_tasks[n], p) # {}
        /\ MessagesOf(db_chat_message, p) # {}
        /\ p \in providers_marked_down
        /\ p \notin provider_clients

\* pass n selected provider p while p was marked down, and p's endpoint answered
\* when the pass came to p
ReachedWhileDown(n, p) ==
    /\ p \in refresh_tasks[n].marked_down_at_start
    /\ \/ p \in refresh_tasks[n].skipped
       \/ p \in DOMAIN refresh_tasks[n].fetched /\ refresh_tasks[n].fetched[p].ok

PendingRefreshEvents ==
    {i \in 1..Len(inference_event_rx) : inference_event_rx[i].kind = "ModelsRefreshed"}

\* the passes that returned and whose event the control loop has not handled yet
ReturnedPasses == {n \in 1..Len(refresh_tasks) : refresh_tasks[n].pc = "done"}

\* C18: every pass sends exactly one ModelsRefreshed event, when it returns, however
\* many providers it selected, fetched or failed to fetch: a running pass has sent
\* none, a returned pass has sent one, and the channel holds one event for each
\* returned pass whose event is not handled yet.
C18_OneEventPerPass ==
    /\ \A n \in 1..Len(refresh_tasks) :
          refresh_tasks[n].events_sent =
              IF refresh_tasks[n].pc \in {"done", "applied"} THEN 1 ELSE 0
    /\ Cardinality(PendingRefreshEvents) = Cardinality(ReturnedPasses)

\* a pass that selected no provider was applied, and a second pass in which a
\* provider was fetched has returned: one event is in the channel
C18_Witness ==
    /\ Len(refresh_tasks) = 2
    /\ refresh_tasks[1].providers_to_refresh = <<>>
    /\ refresh_tasks[1].pc = "applied"
    /\ refresh_tasks[2].pc = "done"
    /\ DOMAIN refresh_tasks[2].fetched # {}
    /\ Cardinality(PendingRefreshEvents) = 1

(***************************************************************************)
(* Errors at submit time.                                                  *)
(***************************************************************************)
\* the rows a step appends to table chat_message
NewRows == {db_chat_message'[i] : i \in (Len(db_chat_message) + 1)..Len(db_chat_message')}

\* an Assistant message of a model that carries an error and no content
IsErrorOnly(row, model_id) ==
    /\ row.chat_role = "Assistant"
    /\ row.model_id = model_id
    /\ row.error # NoText
    /\ row.content = NoText

\* a prompt is submitted in this step while a model of the profile is not selectable
SubmitWithUnavailableModel ==
    /\ state = "Normal"
    /\ UnavailableModels # {}
    /\ \/ state' = "UnavailableModelsError"
       \/ \E row \in NewRows : row.chat_role = "User"

C20_ConfigurationError ==
    SubmitWithUnavailableModel =>
        \A model_id \in Range(current_chat_profile.model_ids) :
            IF model_id \in UnavailableModels
            THEN /\ \E row \in NewRows : IsErrorOnly(row, model_id)
                 /\ \A key \in (DOMAIN tasks') \ DOMAIN tasks : key[2] # model_id
            ELSE \E key \in (DOMAIN tasks') \ DOMAIN tasks : key[2] = model_id

\* C20: when a prompt is submitted and a bound model is unknown or unavailable, an
\* error-only Assistant message for that model is written to the store in the same
\* step and no task is spawned for it, while a task is spawned for every other
\* bound model.
C20_ConfigurationErrorAtSubmit == [][C20_ConfigurationError]_vars

\* every selectable model belongs to a provider that has a client
AvailableHasClient ==
    \A id \in DOMAIN available_models : available_models[id].provider_id \in provider_clients

C22_LoopSurvivesStoreFailure == run_app_result = "running"

(***************************************************************************)
(* C23: lazy chat persistence.  A step adds a row to table chat only when  *)
(* it is an accepted submit on the chat with the placeholder identity 0,   *)
(* and the same step stores the prompt as a User row of the new chat; a    *)
(* step that creates or selects a chat, drops a placeholder chat or        *)
(* refuses a submit leaves the three tables as they are; and no row of     *)
(* the tables chat, chat_model and chat_message carries the identity 0.    *)
(***************************************************************************)
C23_Step ==
    LET RowsOfChat(table, chat_id) == {i \in DOMAIN table : table[i].chat_id = chat_id}
        ChatRowIds(table) == [i \in DOMAIN table |-> table[i].id]
        UserRows(table) == SelectSeq(table, LAMBDA row : row.chat_role = "User")
    IN /\ ChatRowIds(db_chat') # ChatRowIds(db_chat) =>
             /\ state = "Normal" /\ UnavailableModels = {} /\ current_chat.id = 0
             /\ Len(db_chat') = Len(db_chat) + 1
             /\ SubSeq(ChatRowIds(db_chat'), 1, Len(db_chat)) = ChatRowIds(db_chat)
             /\ LET chat_id == db_chat'[Len(db_chat')].id
                IN /\ chat_id # 0
                   /\ current_chat'.id = chat_id
                   /\ RowsOfChat(db_chat_message, chat_id) = {}
                   /\ \E i \in RowsOfChat(db_chat_message', chat_id) :
                         db_chat_message'[i].chat_role = "User"
       /\ (\/ current_chat'.id = 0
           \/ state' = "UnavailableModelsError"
           \/ chat_history_index' # chat_history_index
           \/ Len(chat_history') # Len(chat_history))
          => /\ ChatRowIds(db_chat') = ChatRowIds(db_chat)
             /\ UNCHANGED db_chat_model
             /\ UserRows(db_chat_message') = UserRows(db_chat_message)
       /\ \A c \in Range(db_chat') : c.id # 0
       /\ \A row \in Range(db_chat_model') : row[1] # 0
       /\ RowsOfChat(db_chat_message', 0) = {}

C23_LazyChatPersistence == [][C23_Step]_vars

\* a chat was created by its first prompt, and afterwards a submit on the stored
\* chat was refused: the store holds the two chats and the one new prompt
C23_Witness ==
    /\ state = "UnavailableModelsError"
    /\ Len(db_chat) = 2
    /\ Cardinality({i \in DOMAIN db_chat_message : db_chat_message[i].chat_id = 2}) = 1
    /\ current_chat.id = 1

(***************************************************************************)
(* C25: the bound-model set of a chat is written once.  A step changes     *)
(* table chat_model only when it is the submit of the first prompt of a    *)
(* chat, and the rows it adds are one row per model identity of the chat   *)
(* profile, for the new chat, and nothing else.                            *)
(***************************************************************************)
C25_Step ==
    db_chat_model' # db_chat_model =>
       /\ current_chat.id = 0
       /\ current_chat'.id # 0
       /\ \E i \in DOMAIN db_chat_message' :
             /\ i \notin DOMAIN db_chat_message
             /\ db_chat_message'[i].chat_role = "User"
             /\ db_chat_message'[i].chat_id = current_chat'.id
       /\ Len(db_chat_model') = Len(db_chat_model) + Len(current_chat_profile.model_ids)
       /\ Range(db_chat_model') =
             Range(db_chat_model)
                \cup {<<current_chat'.id, m>> : m \in Range(current_chat_profile.model_ids)}

C24_Step ==
    LET HasMessages(chat_id) ==
            \E i \in DOMAIN db_chat_message : db_chat_message[i].chat_id = chat_id
        BoundModels(table, chat_id) ==
            LET rows == SelectSeq(table, LAMBDA row : row[1] = chat_id)
            IN [i \in 1..Len(rows) |-> rows[i][2]]
    IN /\ \A i \in DOMAIN db_chat :
             HasMessages(db_chat[i].id) =>
                BoundModels(db_chat_model', db_chat[i].id)
                   = BoundModels(db_chat_model, db_chat[i].id)
       /\ (HasMessages(current_chat.id) /\ current_chat'.id = current_chat.id)
             => current_chat_profile'.model_ids = current_chat_profile.model_ids
       /\ (HasMessages(current_chat'.id) /\ current_chat'.id # current_chat.id)
             => current_chat_profile'.model_ids = BoundModels(db_chat_model', current_chat'.id)

C26_TimestampsStrictlyIncrease ==
    \A i, j \in DOMAIN db_chat_message :
        (i < j /\ db_chat_message[i].chat_id = db_chat_message[j].chat_id)
            => db_chat_message[i].dt < db_chat_message[j].dt

(***************************************************************************)
(* C27: deprecation is a soft delete.  When the control loop handles a     *)
(* ModelsRefreshed event, every model the event reports as removed is      *)
(* afterwards not in available_models, is still in all_models under its    *)
(* identity, and still has its row in table model.                         *)
(***************************************************************************)
C27_Step ==
    (/\ inference_event_rx # <<>>
     /\ Head(inference_event_rx).kind = "ModelsRefreshed"
     /\ inference_event_rx' = Tail(inference_event_rx))
    => \A id \in Head(inference_event_rx).removed_model_ids :
          /\ id \notin DOMAIN available_models'
          /\ id \in DOMAIN all_models'
          /\ \E i \in DOMAIN db_model' : db_model'[i].id = id

C27_DeprecationIsSoftDelete == [][C27_Step]_vars

C30_OneTitleTaskPerChat ==
    LET ChatIds == {tasks[k].chat_id : k \in DOMAIN tasks}
        TitledTasks(c) == {k \in DOMAIN tasks : tasks[k].chat_id = c /\ tasks[k].generate_title}
        PromptIds(c) == {db_chat_message[i].id : i \in {j \in DOMAIN db_chat_message :
                            /\ db_chat_message[j].chat_id = c
                            /\ db_chat_message[j].chat_role = "User"}}
        BoundRows(c) == {i \in DOMAIN db_chat_model : db_chat_model[i][1] = c}
        FirstBound(c) == db_chat_model[CHOOSE i \in BoundRows(c) :
                                          \A j \in BoundRows(c) : i <= j][2]
        TitleTasks(c) == {k \in DOMAIN title_tasks : title_tasks[k].chat_id = c}
        TitleEvents(c) == {i \in DOMAIN inference_event_rx :
                              /\ inference_event_rx[i].kind = "TitleInferenceComplete"
                              /\ inference_event_rx[i].chat_id = c}
    IN /\ \A c \in ChatIds :
             /\ Cardinality(TitledTasks(c)) <= 1
             /\ \A k \in TitledTasks(c) :
                   /\ \A id \in PromptIds(c) : tasks[k].user_message_id <= id
                   /\ tasks[k].model_id = FirstBound(c)
             /\ Cardinality(TitleTasks(c)) <= 1
             /\ Cardinality(TitleEvents(c))
                   <= Cardinality({k \in TitleTasks(c) : title_tasks[k].title_result = "Ok"})
       /\ \A k \in DOMAIN title_tasks :
             /\ k \in DOMAIN tasks
             /\ tasks[k].generate_title
             /\ tasks[k].pc = "done"
             /\ title_tasks[k].chat_id = tasks[k].chat_id
             /\ title_tasks[k].model_id = tasks[k].model_id

\* a chat with two generation tasks, all of them returned, and one title task, which
\* has pushed its event
C30_Witness ==
    \E k \in DOMAIN title_tasks :
        /\ title_tasks[k].title_result = "Ok"
        /\ Cardinality({k2 \in DOMAIN tasks : tasks[k2].chat_id = title_tasks[k].chat_id}) = 2
        /\ \A k2 \in DOMAIN tasks : tasks[k2].pc = "done"

(***************************************************************************)
(* C31: the pending query.  is_message_loading answers true for a pair     *)
(* (user message, model) exactly while a generation task was spawned for   *)
(* it and the control loop has not yet handled the completion event of     *)
(* that task; and once the task has sent its event, whatever chat is the   *)
(* current one, the pair is eventually reported not pending.               *)
(***************************************************************************)
C31_PendingQuery ==
    /\ [](\A key \in (1..(2 * MaxTasks)) \X Models :
             is_message_loading(key[2], key[1])
                <=> /\ key \in DOMAIN tasks
                    /\ \/ ~EventSent(key)
                       \/ \E i \in DOMAIN inference_event_rx :
                             /\ inference_event_rx[i].kind = "InferenceComplete"
                             /\ inference_event_rx[i].origin_message_id = key[1]
                             /\ inference_event_rx[i].model_id = key[2])
    /\ \A key \in (1..(2 * MaxTasks)) \X Models :
          (key \in DOMAIN tasks /\ EventSent(key)) ~> ~is_message_loading(key[2], key[1])

\* the completion event of a chat that is not the current chat was handled and the
\* pair is no longer pending
C31_Witness ==
    \E key \in DOMAIN tasks :
        /\ EventSent(key)
        /\ tasks[key].chat_id # current_chat.id
        /\ ~is_message_loading(key[2], key[1])
        /\ \A m \in DOMAIN current_messages :
              \A i \in DOMAIN current_messages[m] : current_messages[m][i].chat_id # tasks[key].chat_id

(***************************************************************************)
(* C32: no duplicated turns.  In the view of every model of the current    *)
(* chat, no two entries are the Assistant message of that model for one    *)
(* prompt (an answer is identified by its model and the timestamp of its   *)
(* prompt, which the store row and the event's copy of it share).          *)
(***************************************************************************)
C32_NoDuplicatedTurns ==
    \A m \in DOMAIN current_messages :
        \A i, j \in DOMAIN current_messages[m] :
            (/\ i # j
             /\ current_messages[m][i].chat_role = "Assistant"
             /\ current_messages[m][j].chat_role = "Assistant"
             /\ current_messages[m][i].model_id = current_messages[m][j].model_id)
                => current_messages[m][i].dt # current_messages[m][j].dt

C34_Step ==
    (/\ inference_event_rx # <<>>
     /\ inference_event_rx' = Tail(inference_event_rx)
     /\ Head(inference_event_rx).kind = "TitleInferenceComplete")
    => LET chat_id == Head(inference_event_rx).chat_id IN
       /\ current_chat.id # chat_id => current_chat'.title = current_chat.title
       /\ Len(chat_history') = Len(chat_history)
       /\ \A i \in 1..Len(chat_history) :
             chat_history[i].id # chat_id => chat_history'[i] = chat_history[i]
       /\ Len(db_chat') = Len(db_chat)
       /\ \A i \in 1..Len(db_chat) :
             db_chat[i].id # chat_id => db_chat'[i] = db_chat[i]

C34_TitleEventFrame == [][C34_Step]_vars

(***************************************************************************)
(* C35: once the title task of a chat has finished, whatever its outcome,  *)
(* the chat is eventually no longer marked title-inference-in-progress.    *)
(***************************************************************************)
C35_TitleMarkEventuallyCleared ==
    \A chat_id \in 1..MaxChats :
        (\E key \in DOMAIN title_tasks :
            /\ title_tasks[key].chat_id = chat_id
            /\ title_tasks[key].pc = "done")
        ~> (chat_id \notin title_inference_in_progress_by_chat)

(***************************************************************************)
(* C36: cursor stability.  In a step that handles a generation-complete    *)
(* event of the current chat, for the model of the event: when the cursor  *)
(* was a valid index of the view it is one afterwards and it designates    *)
(* the same message; and the cursor is one higher exactly when the index   *)
(* of the insertion was less than or equal to it, and unchanged otherwise. *)
(***************************************************************************)
C36_Step ==
    (/\ inference_event_rx # <<>>
     /\ inference_event_rx' = Tail(inference_event_rx)
     /\ Head(inference_event_rx).kind = "InferenceComplete"
     /\ Head(inference_event_rx).chat_id = current_chat.id
     /\ Head(inference_event_rx).model_id \in DOMAIN current_message_index
     /\ Head(inference_event_rx).model_id \in DOMAIN current_messages)
    => LET m == Head(inference_event_rx).model_id
           cursor == current_message_index[m]
       IN /\ Len(current_messages'[m]) = Len(current_messages[m]) + 1
          /\ current_message_index'[m] \in {cursor, cursor + 1}
          /\ cursor < Len(current_messages[m]) =>
                /\ current_message_index'[m] < Len(current_messages'[m])
                /\ current_messages'[m][current_message_index'[m] + 1]
                      = current_messages[m][cursor + 1]
          /\ \A i \in 0..Len(current_messages[m]) :
                VecInsert(current_messages[m], i, Head(inference_event_rx).result)
                      = current_messages'[m]
                   => (current_message_index'[m] = cursor + 1 <=> i <= cursor)

C37_Step ==
    (state = "Normal" /\ current_chat_profile.model_ids = <<>>)
        => /\ db_chat' = db_chat
           /\ db_chat_model' = db_chat_model
           /\ db_chat_message' = db_chat_message

C38_HistoryIndexValid ==
    (run_app_result = "running" /\ state = "Normal")
        => /\ chat_history_index < Len(chat_history)
           /\ chat_history[chat_history_index + 1].id = current_chat.id

\* C39: in every reachable state of a running program, whenever the model list of
\* the current chat profile is not empty, current_model_idx is an index of it
C39_ModelIdxValid ==
    (run_app_result = "running" /\ current_chat_profile.model_ids # <<>>)
        => current_model_idx < Len(current_chat_profile.model_ids)

\* C40: when the dialog is applied, the list it returns holds exactly the models
\* whose selection state is on, each once, and the models the dialog was opened with
\* keep their relative order in it
C40_Step ==
    (state = "ModelSelection" /\ state' = "Normal") =>
        LET modal == model_select_modal
            returned == IF modal.mode = "DefaultModels"
                        THEN default_profile'.model_ids
                        ELSE current_chat_profile'.model_ids
            on == {model_id \in DOMAIN modal.selection_states :
                      modal.selection_states[model_id]}
        IN /\ Range(returned) = on
           /\ Len(returned) = Cardinality(on)
           /\ \A i, j \in 1..Len(modal.enabled_model_order) :
                 \A m, n \in 1..Len(returned) :
                    (/\ i < j
                     /\ returned[m] = modal.enabled_model_order[i]
                     /\ returned[n] = modal.enabled_model_order[j]) => m < n

C40_ApplyReturnsSelected == [][C40_Step]_vars

====
